---- MODULE Spec2Model ----
(***************************************************************************)
(* A model of the sms4-backend request handlers (src/src/handle) and of    *)
(* the entities they act on: accounts, unverified accounts, posts and      *)
(* resources.  Every stored record lives in a "world" keyed by id; a world *)
(* is modelled as a function whose DOMAIN is the set of ids that exist.    *)
(***************************************************************************)
EXTENDS Integers, Sequences, FiniteSets, TLC

VARIABLES
    account,            \* worlds.account: id -> Account
    unverified_account, \* worlds.unverified_account: email hash -> Unverified
    post,               \* worlds.post: id -> Post
    resource,           \* worlds.resource: id -> Resource
    now,                \* OffsetDateTime::now_utc(), in minutes
    today,              \* OffsetDateTime::now_utc().date(), as a julian day
    req,                \* the new_post requests in flight, one per connection
    reply,              \* the result of the request that completed last: Ok or an Error
    next_token,         \* tokens issued so far (a token is never issued twice)
    resource_sessions,  \* UploadSessions.inner: session id -> UploadSession
    files,              \* the files under config.resource_path: name -> content
    instant,            \* Instant::now(), in seconds
    uploads,            \* the upload requests whose body is being received
    sending,            \* the send_captcha requests that passed the account check
    notification        \* worlds.notification: id -> Notification

\* The state of the upload service.
upload_state == <<resource_sessions, files, instant, uploads>>

vars == <<account, unverified_account, post, resource, now, today, req, reply, next_token,
          upload_state, sending, notification>>

----------------------------------------------------------------------------
(* Bounds of the model. *)

NumRes == 3         \* resource ids 1..NumRes
MaxPosts == 2       \* posts alive at the same time
MaxStates == 4      \* length of a post's state history
MaxEdits == 1       \* modify requests per post where only the resources matter
MaxDay == 2         \* the calendar runs over the days 1..MaxDay
MaxResLen == 2      \* length of a request's resource list

ResIds == 1 .. NumRes
PostIds == 1 .. MaxPosts

\* The two accounts that use the post service: account 1 is a plain author,
\* account 2 also reviews, removes and maintains.
Author == "u1"
Reviewer == "u2"
PostUsers == {Author, Reviewer}

\* An Option: <<>> is None, <<v>> is Some(v).
NoneOpt == <<>>
Some(v) == <<v>>
Opt(S) == {NoneOpt} \cup {Some(v) : v \in S}

----------------------------------------------------------------------------
(* Accounts: token validity and the permission check of every handler. *)

\* The email addresses of the requests: two addresses of the school's domains
\* and one foreign address, which Unverified::new refuses.
EmailA == "a@i.pkuschool.edu.cn"
EmailB == "b@pkuschool.edu.cn"
EmailOther == "someone@beijing101.com"
SchoolEmails == {EmailA, EmailB}
Emails == SchoolEmails \cup {EmailOther}

\* Unverified::email_hash, the id of the account of an email: a deterministic
\* hash, without collisions among the addresses of the model.
EmailHash(email) ==
    IF email = EmailA THEN Author
    ELSE IF email = EmailB THEN Reviewer
    ELSE "u0"

\* Tags::contains_permission: the Permission entry exists (perms is an Option
\* of a set) and holds the permission.
ContainsPermission(acc, p) ==
    /\ acc.perms # NoneOpt
    /\ p \in acc.perms[1]

\* Account::is_token_valid: the token is among the account's tokens and has no
\* expiry or an expiry later than now.
IsTokenValid(acc, token) ==
    \E t \in acc.tokens :
        /\ t.token = token
        /\ (t.exp = NoneOpt \/ t.exp[1] > now)

\* A broken validation that skips the permission tags.
VaNoPermissions(a, token, needed) ==
    IF a \notin DOMAIN account THEN "PermissionDenied"
    ELSE IF IsTokenValid(account[a], token) THEN "Ok"
    ELSE "InvalidToken"

\* A broken validation that accepts any token of an existing account.
VaNoToken(a, token, needed) ==
    IF a \notin DOMAIN account THEN "PermissionDenied"
    ELSE IF \A p \in needed : ContainsPermission(account[a], p) THEN "Ok"
    ELSE "PermissionDenied"

\* va!(auth, select => needed...): the account record is fetched again on
\* every request; the token is checked first, then every needed permission.
Va(a, token, needed) ==
    IF a \notin DOMAIN account THEN "PermissionDenied"
    ELSE IF IsTokenValid(account[a], token)
         THEN IF \A p \in needed : ContainsPermission(account[a], p)
              THEN "Ok"
              ELSE "PermissionDenied"
         ELSE "InvalidToken"

----------------------------------------------------------------------------
(* Resources. *)

\* A block that releases a used resource.
BlockToggle(r) == [ok |-> TRUE, res |-> [r EXCEPT !.used = ~@]]

\* Resource::block on a used resource: silently claims it again.
BlockAlways(r) == [ok |-> TRUE, res |-> [r EXCEPT !.used = TRUE]]

\* Resource::block: fails with ResourceUsed if already used, else marks used.
Block(r) ==
    IF r.used THEN [ok |-> FALSE, res |-> r]
    ELSE [ok |-> TRUE, res |-> [r EXCEPT !.used = TRUE]]

\* Lazy::destroy on every selected record.
Destroy(world, ids) == [id \in DOMAIN world \ ids |-> world[id]]

----------------------------------------------------------------------------
(* Posts. *)

MAX_DUR == 7    \* Post::MAX_DUR = Duration::WEEK, in days

\* A validation that refuses a range of exactly MAX_DUR.
validate_time_short(time) ==
    IF time[2] - time[1] < 0 THEN "PostTimeRangeOutOfBound"
    ELSE IF time[2] - time[1] >= MAX_DUR THEN "PostTimeRangeOutOfBound"
    ELSE IF time[2] < today THEN "PostTimeEnded"
    ELSE "Ok"

\* validate_time: the span end - start must not be negative nor longer than
\* MAX_DUR, and the end must not be earlier than today.
validate_time(time) ==
    IF time[2] - time[1] < 0 THEN "PostTimeRangeOutOfBound"
    ELSE IF time[2] - time[1] > MAX_DUR THEN "PostTimeRangeOutOfBound"
    ELSE IF time[2] < today THEN "PostTimeEnded"
    ELSE "Ok"

\* State::new
State(status, operator) == [status |-> status, operator |-> operator]

\* Post::state: the last state.
CurState(p) == p.states[Len(p.states)]

\* Post::creator: the operator of the first state.
Creator(p) == p.states[1].operator

\* A pust_state that overwrites the current state.
pust_state_replace(p, state) ==
    [ok |-> TRUE, post |-> [p EXCEPT !.states[Len(p.states)] = state]]


\* A pust_state that appends nothing.
pust_state_none(p, state) == [ok |-> TRUE, post |-> p]

\* Post::pust_state without the check of the current status.
pust_state_unchecked(p, state) ==
    [ok |-> TRUE, post |-> [p EXCEPT !.states = Append(@, state)]]

\* Post::pust_state: a review result equal to the current status is refused.
pust_state(p, state) ==
    IF CurState(p).status = state.status /\ state.status \in {"Approved", "Rejected"}
    THEN [ok |-> FALSE, post |-> p]
    ELSE [ok |-> TRUE, post |-> [p EXCEPT !.states = Append(@, state)]]

SeqElems(s) == {s[i] : i \in DOMAIN s}

\* The orders in which a selection may yield the records of S.
Orders(S) == {o \in [1 .. Cardinality(S) -> S] : \A i, j \in DOMAIN o : o[i] = o[j] => i = j}

\* The handler returns: Ok, or the name of the Error variant.
Answer(result) == reply' = result

\* The posts that list resource r.
Referencing(r) == {id \in DOMAIN post : r \in post[id].resources}

FreshPostId == CHOOSE id \in PostIds : id \notin DOMAIN post

----------------------------------------------------------------------------
(* new_post, one step per access to a stored record.  Between two steps of *)
(* one request any step of another request may run.                        *)

Conns == {"c1", "c2"}

IdleReq ==
    [pc |-> "idle", caller |-> "", token |-> 0, title |-> "", grouped |-> FALSE, time |-> <<0, 0>>,
     resources |-> <<>>, validated |-> 0, seen |-> {}, cur |-> 0, result |-> ""]

InFlight(c) == req[c].pc \in {"iter", "get_mut"}

\* The request on connection c ends with `result`.
Respond(c, r, result) ==
    /\ req' = [req EXCEPT ![c] = [r EXCEPT !.pc = "done", !.validated = 0, !.seen = {},
                                           !.cur = 0, !.result = result]]
    /\ reply' = result

\* new_post up to the selection of the resources: the account is validated
\* for Permission::Post and an empty resource list is refused.
NewPostBegin(c, caller, token, title, time, resources, grouped) ==
    /\ req[c].pc = "idle"
    /\ Cardinality(DOMAIN post) + Cardinality({d \in Conns : InFlight(d)}) < MaxPosts
    /\ LET r == [IdleReq EXCEPT !.caller = caller, !.token = token, !.title = title, !.time = time,
                                !.resources = resources, !.grouped = grouped]
           v == Va(caller, token, {"Post"})
       IN  IF v # "Ok" THEN Respond(c, r, v)
           ELSE IF resources = <<>> THEN Respond(c, r, "PostResourceEmpty")
           ELSE /\ req' = [req EXCEPT ![c] = [r EXCEPT !.pc = "iter"]]
                /\ UNCHANGED reply
    /\ UNCHANGED <<account, unverified_account, post, resource, now, today, next_token, upload_state, sending, notification>>

\* The records the selection still yields: the listed resources that exist
\* and were not yielded yet.
Pending(c) == (SeqElems(req[c].resources) \cap DOMAIN resource) \ req[c].seen

\* The loop runs on while the selection yields records and fewer resources
\* than listed are validated.
LoopRuns(c) == Pending(c) # {} /\ req[c].validated < Len(req[c].resources)

\* iter.next() and lazy.get(): the next record is read and its owner compared
\* with the caller; a record of another owner is skipped.
NewPostGet(c) ==
    /\ req[c].pc = "iter"
    /\ LoopRuns(c)
    /\ \E id \in Pending(c) :
          IF resource[id].owner = req[c].caller
          THEN req' = [req EXCEPT ![c].pc = "get_mut", ![c].cur = id,
                                  ![c].seen = @ \cup {id}]
          ELSE req' = [req EXCEPT ![c].seen = @ \cup {id}]
    /\ UNCHANGED <<account, unverified_account, post, resource, now, today, reply, next_token, upload_state, sending, notification>>

\* lazy.get_mut(), block() and close(): one atomic access to the record.  A
\* used resource ends the request with ResourceUsed; a record that is gone
\* is skipped.
NewPostBlock(c) ==
    /\ req[c].pc = "get_mut"
    /\ LET id == req[c].cur IN
       IF id \notin DOMAIN resource
       THEN /\ req' = [req EXCEPT ![c].pc = "iter", ![c].cur = 0]
            /\ UNCHANGED <<resource, reply>>
       ELSE LET b == Block(resource[id]) IN
            IF b.ok
            THEN /\ resource' = [resource EXCEPT ![id] = b.res]
                 /\ req' = [req EXCEPT ![c].pc = "iter", ![c].cur = 0,
                                       ![c].validated = @ + 1]
                 /\ UNCHANGED reply
            ELSE /\ Respond(c, req[c], "ResourceUsed")
                 /\ UNCHANGED resource
    /\ UNCHANGED <<account, unverified_account, post, now, today, next_token, upload_state, sending, notification>>

\* Post::new: the time range is validated and the post starts with a single
\* Pending state whose operator is the creator.
PostNew(title, time, resources, acc, grouped) ==
    LET v == validate_time(time) IN
    IF v # "Ok" THEN [ok |-> FALSE, err |-> v]
    ELSE [ok |-> TRUE,
          post |-> [title |-> title, time |-> time, resources |-> SeqElems(resources),
                    states |-> <<State("Pending", acc)>>, grouped |-> grouped]]

\* The loop of new_post run to its end over the records in the order the
\* selection yields them: a record of the caller is blocked and counted, the
\* first block that fails ends the request, and the loop stops once as many
\* resources as listed are validated.
RECURSIVE NewPostLoop(_, _, _, _, _)
NewPostLoop(order, res, validated, caller, len) ==
    IF order = <<>> \/ validated >= len
    THEN [ok |-> TRUE, resource |-> res, validated |-> validated]
    ELSE LET id == Head(order) IN
         IF res[id].owner # caller
         THEN NewPostLoop(Tail(order), res, validated, caller, len)
         ELSE LET b == Block(res[id]) IN
              IF b.ok
              THEN NewPostLoop(Tail(order), [res EXCEPT ![id] = b.res], validated + 1,
                               caller, len)
              ELSE [ok |-> FALSE, resource |-> res, validated |-> validated]

\* world.try_insert(post) under a fresh id.
Insert(world, id, rec) ==
    [i \in DOMAIN world \cup {id} |-> IF i = id THEN rec ELSE world[i]]

\* A new_post that releases what it claimed when it fails.
NewPostReleasing(caller, token, title, time, resources, grouped) ==
    /\ Cardinality(DOMAIN post) < MaxPosts
    /\ LET v == Va(caller, token, {"Post"}) IN
       IF v # "Ok" THEN Answer(v) /\ UNCHANGED <<post, resource>>
       ELSE IF resources = <<>>
       THEN Answer("PostResourceEmpty") /\ UNCHANGED <<post, resource>>
       ELSE \E order \in Orders(SeqElems(resources) \cap DOMAIN resource) :
            LET l == NewPostLoop(order, resource, 0, caller, Len(resources))
                n == PostNew(title, time, resources, caller, grouped)
            IN  IF ~l.ok THEN Answer("ResourceUsed") /\ UNCHANGED <<post, resource>>
                ELSE IF l.validated < Len(resources)
                THEN Answer("PermissionDenied") /\ UNCHANGED <<post, resource>>
                ELSE IF ~n.ok THEN Answer(n.err) /\ UNCHANGED <<post, resource>>
                ELSE /\ post' = Insert(post, FreshPostId, n.post)
                     /\ resource' = l.resource
                     /\ Answer("Ok")
    /\ UNCHANGED <<account, unverified_account, now, today, req, next_token, upload_state, sending, notification>>

\* new_post as one step, for the runs in which no other request touches the
\* resources while it runs.
NewPost(caller, token, title, time, resources, grouped) ==
    /\ Cardinality(DOMAIN post) < MaxPosts
    /\ LET v == Va(caller, token, {"Post"}) IN
       IF v # "Ok" THEN Answer(v) /\ UNCHANGED <<post, resource>>
       ELSE IF resources = <<>>
       THEN Answer("PostResourceEmpty") /\ UNCHANGED <<post, resource>>
       ELSE \E order \in Orders(SeqElems(resources) \cap DOMAIN resource) :
            LET l == NewPostLoop(order, resource, 0, caller, Len(resources))
                n == PostNew(title, time, resources, caller, grouped)
            IN  /\ resource' = l.resource
                /\ IF ~l.ok THEN Answer("ResourceUsed") /\ UNCHANGED post
                   ELSE IF l.validated < Len(resources)
                   THEN Answer("PermissionDenied") /\ UNCHANGED post
                   ELSE IF ~n.ok THEN Answer(n.err) /\ UNCHANGED post
                   ELSE post' = Insert(post, FreshPostId, n.post) /\ Answer("Ok")
    /\ UNCHANGED <<account, unverified_account, now, today, req, next_token, upload_state, sending, notification>>

\* After the loop: fewer validated resources than listed is PermissionDenied;
\* otherwise the post is built (Post::new) and inserted.
NewPostEnd(c) ==
    /\ req[c].pc = "iter"
    /\ ~LoopRuns(c)
    /\ LET r == req[c] IN
       IF r.validated < Len(r.resources)
       THEN Respond(c, r, "PermissionDenied") /\ UNCHANGED post
       ELSE LET n == PostNew(r.title, r.time, r.resources, r.caller, r.grouped) IN
            IF ~n.ok THEN Respond(c, r, n.err) /\ UNCHANGED post
            ELSE /\ post' = Insert(post, FreshPostId, n.post)
                 /\ Respond(c, r, "Ok")
    /\ UNCHANGED <<account, unverified_account, resource, now, today, next_token, upload_state, sending, notification>>

----------------------------------------------------------------------------
(* The other post handlers.  Each holds the write handle of the post from  *)
(* its first access to its return, so each is one step.  A record obtained *)
(* with get_mut is changed in place: what a handler has assigned before it *)
(* returns an error stays assigned.                                        *)


\* The loop of modify over the selected resources: a record leaving the post
\* is destroyed, a record entering it is blocked and pushed to the result;
\* the first block that fails ends the loop with what was done so far.
RECURSIVE ModifyLoop(_, _, _, _)
ModifyLoop(order, res, result, old_diff) ==
    IF order = <<>> THEN [ok |-> TRUE, resource |-> res, result |-> result]
    ELSE LET id == Head(order) IN
         IF id \in old_diff
         THEN ModifyLoop(Tail(order), Destroy(res, {id}), result, old_diff)
         ELSE LET b == Block(res[id]) IN
              IF b.ok
              THEN ModifyLoop(Tail(order), [res EXCEPT ![id] = b.res],
                              result \cup {id}, old_diff)
              ELSE [ok |-> FALSE, resource |-> res, result |-> result]

\* A modify that does not look at the creator of the post.
ModifyByAnyone(caller, token, id, title, grouped, time, resources) ==
    /\ id \in DOMAIN post => Len(post[id].states) < MaxStates
    /\ LET v == Va(caller, token, {"Post"}) IN
       IF v # "Ok"
       THEN Answer(v) /\ UNCHANGED <<post, resource>>
       ELSE IF id \notin DOMAIN post
       THEN Answer("PostNotFound") /\ UNCHANGED <<post, resource>>
       ELSE
         LET p0 == post[id]
             p1 == [p0 EXCEPT !.title = IF title = NoneOpt THEN @ ELSE title[1],
                              !.grouped = IF grouped = NoneOpt THEN @ ELSE grouped[1]]
             tv == IF time = NoneOpt THEN "Ok" ELSE validate_time(time[1])
             p2 == IF time = NoneOpt THEN p1 ELSE [p1 EXCEPT !.time = time[1]]
         IN
         IF tv # "Ok"
         THEN /\ post' = [post EXCEPT ![id] = p1]
              /\ Answer(tv)
              /\ UNCHANGED resource
         ELSE IF resources = NoneOpt
         THEN /\ post' = [post EXCEPT ![id] = pust_state(p2, State("Pending", caller)).post]
              /\ Answer("Ok")
              /\ UNCHANGED resource
         ELSE
           LET new_res == resources[1]
               old_res == p0.resources
               new_diff == new_res \ old_res
               old_diff == old_res \ new_res
               sel == (old_diff \cup new_diff) \cap DOMAIN resource
           IN
           \E order \in Orders(sel) :
             LET l == ModifyLoop(order, resource, new_res \cap old_res, old_diff) IN
             IF ~l.ok
             THEN /\ resource' = l.resource
                  /\ post' = [post EXCEPT ![id] = p2]
                  /\ Answer("ResourceUsed")
             ELSE /\ resource' = l.resource
                  /\ post' = [post EXCEPT ![id] =
                        pust_state([p2 EXCEPT !.resources = l.result],
                                   State("Pending", caller)).post]
                  /\ Answer("Ok")
    /\ UNCHANGED <<account, unverified_account, now, today, req, next_token, upload_state, sending, notification>>

\* modify: title, grouped, time and resources are Options.
Modify(caller, token, id, title, grouped, time, resources) ==
    /\ id \in DOMAIN post => Len(post[id].states) < MaxStates
    /\ LET v == Va(caller, token, {"Post"}) IN
       IF v # "Ok"
       THEN Answer(v) /\ UNCHANGED <<post, resource>>
       ELSE IF id \notin DOMAIN post \/ Creator(post[id]) # caller
       THEN Answer("PostNotFound") /\ UNCHANGED <<post, resource>>
       ELSE
         LET p0 == post[id]
             p1 == [p0 EXCEPT !.title = IF title = NoneOpt THEN @ ELSE title[1],
                              !.grouped = IF grouped = NoneOpt THEN @ ELSE grouped[1]]
             tv == IF time = NoneOpt THEN "Ok" ELSE validate_time(time[1])
             p2 == IF time = NoneOpt THEN p1 ELSE [p1 EXCEPT !.time = time[1]]
         IN
         IF tv # "Ok"
         THEN /\ post' = [post EXCEPT ![id] = p1]
              /\ Answer(tv)
              /\ UNCHANGED resource
         ELSE IF resources = NoneOpt
         THEN /\ post' = [post EXCEPT ![id] = pust_state(p2, State("Pending", caller)).post]
              /\ Answer("Ok")
              /\ UNCHANGED resource
         ELSE
           LET new_res == resources[1]
               old_res == p0.resources
               new_diff == new_res \ old_res
               old_diff == old_res \ new_res
               sel == (old_diff \cup new_diff) \cap DOMAIN resource
           IN
           \E order \in Orders(sel) :
             LET l == ModifyLoop(order, resource, new_res \cap old_res, old_diff) IN
             IF ~l.ok
             THEN /\ resource' = l.resource
                  /\ post' = [post EXCEPT ![id] = p2]
                  /\ Answer("ResourceUsed")
             ELSE /\ resource' = l.resource
                  /\ post' = [post EXCEPT ![id] =
                        pust_state([p2 EXCEPT !.resources = l.result],
                                   State("Pending", caller)).post]
                  /\ Answer("Ok")
    /\ UNCHANGED <<account, unverified_account, now, today, req, next_token, upload_state, sending, notification>>

\* A review that does not validate its caller.
ReviewUnchecked(caller, token, id, status) ==
    /\ id \in DOMAIN post => Len(post[id].states) < MaxStates
    /\ IF status \notin {"Approved", "Rejected"}
       THEN Answer("InvalidPostStatus") /\ UNCHANGED post
       ELSE IF id \notin DOMAIN post
       THEN Answer("PostNotFound") /\ UNCHANGED post
       ELSE LET r == pust_state(post[id], State(status, caller)) IN
            IF ~r.ok THEN Answer("InvalidPostStatus") /\ UNCHANGED post
            ELSE /\ post' = [post EXCEPT ![id] = r.post]
                 /\ Answer("Ok")
    /\ UNCHANGED <<account, unverified_account, resource, now, today, req, next_token, upload_state, sending, notification>>

\* review: needs Permission::ReviewPost; the status must be a review result.
Review(caller, token, id, status) ==
    /\ id \in DOMAIN post => Len(post[id].states) < MaxStates
    /\ LET v == Va(caller, token, {"ReviewPost"}) IN
       IF v # "Ok" THEN Answer(v) /\ UNCHANGED post
       ELSE IF status \notin {"Approved", "Rejected"}
       THEN Answer("InvalidPostStatus") /\ UNCHANGED post
       ELSE IF id \notin DOMAIN post
       THEN Answer("PostNotFound") /\ UNCHANGED post
       ELSE LET r == pust_state(post[id], State(status, caller)) IN
            IF ~r.ok THEN Answer("InvalidPostStatus") /\ UNCHANGED post
            ELSE /\ post' = [post EXCEPT ![id] = r.post]
                 /\ Answer("Ok")
    /\ UNCHANGED <<account, unverified_account, resource, now, today, req, next_token, upload_state, sending, notification>>

\* The selection of remove and bulk_remove: the listed resources among the
\* records whose used dimension is 1.
UsedAmong(ids) == {r \in ids \cap DOMAIN resource : resource[r].used}

\* A remove that does not look at the creator nor at RemovePost.
RemoveByAnyone(caller, token, id) ==
    /\ LET v == Va(caller, token, {"Post"}) IN
       IF v # "Ok" THEN Answer(v) /\ UNCHANGED <<post, resource>>
       ELSE IF id \notin DOMAIN post
       THEN Answer("PostNotFound") /\ UNCHANGED <<post, resource>>
       ELSE /\ resource' = Destroy(resource, UsedAmong(post[id].resources))
            /\ post' = Destroy(post, {id})
            /\ Answer("Ok")
    /\ UNCHANGED <<account, unverified_account, now, today, req, next_token, upload_state, sending, notification>>

\* remove: the creator, or a holder of Permission::RemovePost, destroys the
\* used resources of the post and then the post.
Remove(caller, token, id) ==
    /\ LET v == Va(caller, token, {"Post"}) IN
       IF v # "Ok" THEN Answer(v) /\ UNCHANGED <<post, resource>>
       ELSE IF id \notin DOMAIN post
       THEN Answer("PostNotFound") /\ UNCHANGED <<post, resource>>
       ELSE IF Creator(post[id]) # caller /\ ~ContainsPermission(account[caller], "RemovePost")
       THEN Answer("PostNotFound") /\ UNCHANGED <<post, resource>>
       ELSE /\ resource' = Destroy(resource, UsedAmong(post[id].resources))
            /\ post' = Destroy(post, {id})
            /\ Answer("Ok")
    /\ UNCHANGED <<account, unverified_account, now, today, req, next_token, upload_state, sending, notification>>

\* The union of the resource lists of the posts in ids.
ResourcesOf(ids) == UNION {post[id].resources : id \in ids}

\* bulk_remove, BulkRemoveReq::Posts: of the listed posts those of the caller
\* (all of them for a holder of RemovePost) are destroyed, then their used
\* resources.
BulkRemovePosts(caller, token, posts) ==
    /\ LET v == Va(caller, token, {"Post"}) IN
       IF v # "Ok" THEN Answer(v) /\ UNCHANGED <<post, resource>>
       ELSE LET permitted_rm == ContainsPermission(account[caller], "RemovePost")
                rm == {id \in posts \cap DOMAIN post :
                          Creator(post[id]) = caller \/ permitted_rm}
            IN  /\ post' = Destroy(post, rm)
                /\ resource' = Destroy(resource, UsedAmong(ResourcesOf(rm)))
                /\ Answer("Ok")
    /\ UNCHANGED <<account, unverified_account, now, today, req, next_token, upload_state, sending, notification>>

\* bulk_remove, BulkRemoveReq::Unused: needs Permission::Maintain; every post
\* whose time range ended before today is destroyed, then its used resources.
BulkRemoveUnused(caller, token) ==
    /\ LET v == Va(caller, token, {"Post"}) IN
       IF v # "Ok" THEN Answer(v) /\ UNCHANGED <<post, resource>>
       ELSE IF ~ContainsPermission(account[caller], "Maintain")
       THEN Answer("PermissionDenied") /\ UNCHANGED <<post, resource>>
       ELSE LET rm == {id \in DOMAIN post : post[id].time[2] < today}
            IN  /\ post' = Destroy(post, rm)
                /\ resource' = Destroy(resource, UsedAmong(ResourcesOf(rm)))
                /\ Answer("Ok")
    /\ UNCHANGED <<account, unverified_account, now, today, req, next_token, upload_state, sending, notification>>

\* The date changes.
TickDay ==
    /\ today < MaxDay
    /\ today' = today + 1
    /\ UNCHANGED <<account, unverified_account, post, resource, now, req, reply, next_token, upload_state, sending, notification>>

----------------------------------------------------------------------------
(* The post service: its initial state, the inputs of its requests and its *)
(* specifications.                                                         *)

EmptyWorld == [id \in {} |-> id]

----------------------------------------------------------------------------
(* Resources on disk and the upload sessions. *)

\* Resource::file_name and Resource::buf_name of the resource with this id.
FILE_PREFIX == "r_"
BUF_PREFIX == "buf_"
file_name(id) == <<FILE_PREFIX, id>>
ResourceBufName(id) == <<BUF_PREFIX, id>>

\* UploadSession::new: the resource being uploaded and the time of creation.
UploadSessionNew(res) == [resource |-> res, instant |-> instant]

\* UploadSession::is_expired: instant.elapsed() > EXPIRE_DUR, in seconds.
EXPIRE_DUR == 15
is_expired(s) == instant - s.instant > EXPIRE_DUR

\* UploadSessions::cleanup: retains the sessions that are not expired.
cleanup_none(sessions) == sessions
cleanup(sessions) ==
    [id \in {i \in DOMAIN sessions : ~is_expired(sessions[i])} |-> sessions[id]]

\* UploadSessions::insert: cleans up, then inserts the session under the id
\* of the resource (HashMap::insert replaces an entry of that id).
insert(sessions, res) ==
    LET kept == cleanup(sessions)
    IN  [id \in DOMAIN kept \cup {res.id} |->
            IF id = res.id THEN UploadSessionNew(res) ELSE kept[id]]

\* An accept that leaves the session in the table.
accept_keep(sessions, id, user, new_id) ==
    LET kept == cleanup(sessions)
    IN  IF id \notin DOMAIN kept
        THEN [ok |-> FALSE, err |-> "ResourceUploadSessionNotFound", sessions |-> kept]
        ELSE IF kept[id].resource.owner # user
        THEN [ok |-> FALSE, err |-> "PermissionDenied", sessions |-> kept]
        ELSE [ok |-> TRUE,
              res |-> [kept[id].resource EXCEPT !.id = new_id],
              sessions |-> kept]

\* UploadSessions::accept: cleans up, then looks the session up, compares its
\* owner with the user, removes the session and gives the resource its final
\* id new_id, the hash of the content, the system time and the user. The
\* result carries the table as the call leaves it.
accept(sessions, id, user, new_id) ==
    LET kept == cleanup(sessions)
    IN  IF id \notin DOMAIN kept
        THEN [ok |-> FALSE, err |-> "ResourceUploadSessionNotFound", sessions |-> kept]
        ELSE IF kept[id].resource.owner # user
        THEN [ok |-> FALSE, err |-> "PermissionDenied", sessions |-> kept]
        ELSE [ok |-> TRUE,
              res |-> [kept[id].resource EXCEPT !.id = new_id],
              sessions |-> [i \in DOMAIN kept \ {id} |-> kept[i]]]

\* UploadSessions::buf_name: the buffer name of the session, None without a
\* session of this id; expired sessions are not cleaned up here.
buf_name(sessions, id) ==
    IF id \in DOMAIN sessions THEN Some(ResourceBufName(sessions[id].resource.id))
    ELSE NoneOpt

\* The files without the file of this name, and with this content under a name.
RemoveFile(fs, name) == [n \in DOMAIN fs \ {name} |-> fs[n]]
WriteFile(fs, name, content) ==
    [n \in DOMAIN fs \cup {name} |-> IF n = name THEN content ELSE fs[n]]

\* handle::resource::new_session: a resource of the caller under the id that
\* Resource::new hashes from the time, the account and a random number.
NewSession(caller, token, id) ==
    /\ LET v == Va(caller, token, {"UploadResource"}) IN
       IF v # "Ok" THEN Answer(v) /\ UNCHANGED resource_sessions
       ELSE /\ resource_sessions' =
                  insert(resource_sessions, [id |-> id, owner |-> caller, used |-> FALSE])
            /\ Answer("Ok")
    /\ UNCHANGED <<account, unverified_account, post, resource, now, today, req, next_token,
                   files, instant, uploads, sending, notification>>

\* handle::resource::upload until the body is awaited: the permission check,
\* the buffer name of the session and the creation of the buffer file, which
\* truncates a file of that name.  The request is received on a connection,
\* so that two requests of one account for one session are two uploads.
UploadOpenOn(conn, caller, token, id) ==
    /\ LET v == Va(caller, token, {"UploadResource"})
           name == buf_name(resource_sessions, id)
       IN  IF v # "Ok" THEN Answer(v) /\ UNCHANGED <<files, uploads>>
           ELSE IF name = NoneOpt
           THEN Answer("ResourceUploadSessionNotFound") /\ UNCHANGED <<files, uploads>>
           ELSE /\ files' = WriteFile(files, name[1], 0)
                /\ uploads' = uploads \cup {[id |-> id, account |-> caller, conn |-> conn]}
                /\ UNCHANGED reply
    /\ UNCHANGED <<account, unverified_account, post, resource, now, today, req, next_token,
                   resource_sessions, instant, sending, notification>>

\* upload on the first connection.
UploadOpen(caller, token, id) == UploadOpenOn(1, caller, token, id)

\* handle::resource::upload from the body on: len bytes are written to the
\* buffer file, a body over the cap has the buffer removed, otherwise the
\* session is accepted, the buffer is renamed to the file of the final id and
\* the resource is inserted; a file that was removed meanwhile fails the rename.
MAX_PAYLOAD_LEN == 50 * 1024 * 1024
UploadAnySize(u, len, new_id) ==
    /\ u \in uploads
    /\ uploads' = uploads \ {u}
    /\ LET buf == ResourceBufName(u.id)
           written == IF buf \in DOMAIN files THEN WriteFile(files, buf, len) ELSE files
           a == accept(resource_sessions, u.id, u.account, new_id)
       IN  /\ resource_sessions' = a.sessions
           /\ IF ~a.ok
              THEN Answer(a.err) /\ files' = written /\ UNCHANGED resource
              ELSE IF buf \notin DOMAIN written
              THEN Answer("ResourceSaveFailed") /\ files' = written /\ UNCHANGED resource
              ELSE /\ files' = WriteFile(RemoveFile(written, buf), file_name(new_id), len)
                   /\ IF new_id \in DOMAIN resource
                      THEN Answer("PermissionDenied") /\ UNCHANGED resource
                      ELSE /\ resource' =
                                 [r \in DOMAIN resource \cup {new_id} |->
                                     IF r = new_id
                                     THEN [owner |-> a.res.owner, used |-> a.res.used]
                                     ELSE resource[r]]
                           /\ Answer("Ok")
    /\ UNCHANGED <<account, unverified_account, post, now, today, req, next_token, instant, sending, notification>>
UploadBody(u, len, new_id) ==
    /\ u \in uploads
    /\ uploads' = uploads \ {u}
    /\ LET buf == ResourceBufName(u.id)
           written == IF buf \in DOMAIN files THEN WriteFile(files, buf, len) ELSE files
           a == accept(resource_sessions, u.id, u.account, new_id)
       IN  IF len > MAX_PAYLOAD_LEN
           THEN /\ files' = RemoveFile(written, buf)
                /\ Answer("PayloadTooLarge")
                /\ UNCHANGED <<resource, resource_sessions>>
           ELSE /\ resource_sessions' = a.sessions
                /\ IF ~a.ok
                   THEN Answer(a.err) /\ files' = written /\ UNCHANGED resource
                   ELSE IF buf \notin DOMAIN written
                   THEN Answer("ResourceSaveFailed") /\ files' = written /\ UNCHANGED resource
                   ELSE /\ files' = WriteFile(RemoveFile(written, buf), file_name(new_id), len)
                        /\ IF new_id \in DOMAIN resource
                           THEN Answer("PermissionDenied") /\ UNCHANGED resource
                           ELSE /\ resource' =
                                      [r \in DOMAIN resource \cup {new_id} |->
                                          IF r = new_id
                                          THEN [owner |-> a.res.owner, used |-> a.res.used]
                                          ELSE resource[r]]
                                /\ Answer("Ok")
    /\ UNCHANGED <<account, unverified_account, post, now, today, req, next_token, instant, sending, notification>>

\* The monotonic clock advances.
MaxInstant == 16
TickInstant(d) ==
    /\ instant + d <= MaxInstant
    /\ instant' = instant + d
    /\ UNCHANGED <<account, unverified_account, post, resource, now, today, req, reply,
                   next_token, resource_sessions, files, uploads, sending, notification>>

\* No session, no upload in flight, and the file of every resource on disk.
\* The content of a file is the number of bytes written to it; the files that
\* are there at the start hold no byte of the uploads of the model.
InitDisk ==
    /\ resource_sessions = EmptyWorld
    /\ files = [n \in {file_name(r) : r \in DOMAIN resource} |-> 0]
    /\ instant = 0
    /\ uploads = {}


\* An account as the post handlers see it: logged in once, with a token
\* that does not expire.
PostAccount(email, perms) ==
    [email |-> email,
     password |-> "pw1", tokens |-> {[token |-> 1, exp |-> NoneOpt]},
     perms |-> Some(perms),
     token_expire_time |-> NoneOpt, verifies |-> NoneOpt]

\* Uploaded, unused resources; the owners alternate between the post users.
InitPost ==
    /\ account = [u \in PostUsers |->
                    IF u = Author THEN PostAccount(EmailA, {"Post"})
                    ELSE PostAccount(EmailB, {"Post", "ReviewPost", "RemovePost", "Maintain"})]
    /\ unverified_account = EmptyWorld
    /\ post = EmptyWorld
    /\ resource = [r \in ResIds |->
                    [owner |-> IF r % 2 = 1 THEN Author ELSE Reviewer, used |-> FALSE]]
    /\ now = 0
    /\ today = 1
    /\ req = [c \in Conns |-> IdleReq]
    /\ reply = ""
    /\ next_token = 2
    /\ InitDisk
    /\ sending = {}
    /\ notification = EmptyWorld

\* Request inputs: the credentials (account and token; token 0 was never
\* issued), time ranges that are valid until day 1, valid until day 8, too
\* long and reversed, and resource lists up to MaxResLen long.
Auths == {<<Author, 1>>, <<Reviewer, 1>>, <<Author, 0>>}
ReqTimes == {<<1, 1>>, <<1, 8>>, <<1, 9>>, <<2, 1>>}
ReqResources == UNION {[1 .. n -> ResIds] : n \in 0 .. MaxResLen}
Statuses == {"Pending", "Approved", "Rejected"}

\* Two connections, one new_post request each, nothing else; the requests
\* list the author's resource 1 and the reviewer's resource 2.
RaceResources == UNION {[1 .. n -> {1, 2}] : n \in 0 .. MaxResLen}
NextRace ==
    \E c \in Conns :
        \/ \E auth \in Auths, time \in {<<1, 1>>, <<1, 9>>}, resources \in RaceResources :
              NewPostBegin(c, auth[1], auth[2], "t1", time, resources, FALSE)
        \/ NewPostGet(c)
        \/ NewPostBlock(c)
        \/ NewPostEnd(c)

SpecRace == InitPost /\ [][NextRace]_vars

\* The handlers that bind resources to posts, one request at a time.  A
\* request with a token that was never issued is tried with one input each.
GoodAuths == {a \in Auths : a[2] = 1}
BadAuths == Auths \ GoodAuths

NextPost ==
    \/ \E auth \in GoodAuths, time \in {<<1, 1>>, <<1, 9>>}, resources \in ReqResources :
          NewPost(auth[1], auth[2], "t1", time, resources, FALSE)
    \/ \E auth \in BadAuths :
          NewPost(auth[1], auth[2], "t1", <<1, 1>>, <<1>>, FALSE)
    \/ \E auth \in GoodAuths, id \in PostIds,
          time \in Opt({<<1, 8>>, <<1, 9>>}), resources \in Opt(SUBSET ResIds) :
          /\ id \in DOMAIN post => Len(post[id].states) <= MaxEdits
          /\ Modify(auth[1], auth[2], id, NoneOpt, NoneOpt, time, resources)
    \/ \E auth \in BadAuths, id \in PostIds :
          Modify(auth[1], auth[2], id, NoneOpt, NoneOpt, NoneOpt, NoneOpt)
    \/ \E auth \in Auths, id \in PostIds :
          Remove(auth[1], auth[2], id)
    \/ \E auth \in Auths, posts \in SUBSET PostIds :
          BulkRemovePosts(auth[1], auth[2], posts)
    \/ \E auth \in Auths :
          BulkRemoveUnused(auth[1], auth[2])
    \/ TickDay

SpecPost == InitPost /\ [][NextPost]_vars

\* Creation, review and resubmission of posts.
NextReview ==
    \/ \E auth \in GoodAuths, r \in {1, 2} :
          NewPost(auth[1], auth[2], "t1", <<1, 8>>, <<r>>, FALSE)
    \/ \E auth \in Auths, id \in PostIds, status \in Statuses :
          Review(auth[1], auth[2], id, status)
    \/ \E auth \in Auths, id \in PostIds :
          Modify(auth[1], auth[2], id, NoneOpt, NoneOpt, NoneOpt, NoneOpt)

SpecReview == InitPost /\ [][NextReview]_vars

\* Time ranges of every kind: reversed, ended, within MAX_DUR, exactly
\* MAX_DUR and longer.  The author creates a post on resource 1 and changes
\* its time range while the days pass.
TimeInputs == (0 .. 2) \X (0 .. 10)

NextTime ==
    \/ \E time \in TimeInputs :
          NewPost(Author, 1, "t1", time, <<1>>, FALSE)
    \/ \E id \in PostIds, time \in TimeInputs :
          Modify(Author, 1, id, NoneOpt, NoneOpt, Some(time), NoneOpt)
    \/ TickDay

SpecTime == InitPost /\ [][NextTime]_vars


\* Creation and removal of posts alone: resources get claimed, and destroyed
\* with their post.  The requests list up to two of the resources 1, 2, 3.
ClaimResources == UNION {[1 .. n -> {1, 2, 3}] : n \in 0 .. 2}
NextClaim ==
    \/ \E auth \in GoodAuths, time \in {<<1, 1>>, <<1, 9>>}, resources \in ClaimResources :
          NewPost(auth[1], auth[2], "t1", time, resources, FALSE)
    \/ \E auth \in GoodAuths, id \in PostIds :
          Remove(auth[1], auth[2], id)

SpecClaim == InitPost /\ [][NextClaim]_vars


\* The patches of modify requests, as <<title, grouped, time, resources>>:
\* nothing, title and grouped, a valid and an invalid time range, and a
\* replacement of the resources by resource 3 or by none.
ModifyPatches ==
    {<<NoneOpt, NoneOpt, NoneOpt, NoneOpt>>,
     <<Some("t2"), Some(TRUE), NoneOpt, NoneOpt>>,
     <<NoneOpt, NoneOpt, Some(<<1, 8>>), NoneOpt>>,
     <<NoneOpt, NoneOpt, Some(<<1, 9>>), NoneOpt>>,
     <<NoneOpt, NoneOpt, NoneOpt, Some({3})>>,
     <<NoneOpt, NoneOpt, NoneOpt, Some({})>>}

\* Posts are created by the author (on resource 1) and by the reviewer (on
\* resource 2), reviewed, and modified by anyone.
NextModify ==
    \/ NewPost(Author, 1, "t1", <<1, 8>>, <<1>>, FALSE)
    \/ NewPost(Reviewer, 1, "t1", <<1, 8>>, <<2>>, FALSE)
    \/ \E id \in PostIds, status \in {"Approved", "Rejected"} :
          /\ id \in DOMAIN post => Len(post[id].states) <= 2
          /\ Review(Reviewer, 1, id, status)
    \/ \E auth \in Auths, id \in PostIds, patch \in ModifyPatches :
          /\ id \in DOMAIN post => Len(post[id].states) <= 2
          /\ Modify(auth[1], auth[2], id, patch[1], patch[2], patch[3], patch[4])

SpecModify == InitPost /\ [][NextModify]_vars


\* Creation and review alone: every credential tries every status on every
\* post id.
NextGuard ==
    \/ \E auth \in GoodAuths, r \in {1, 2} :
          NewPost(auth[1], auth[2], "t1", <<1, 8>>, <<r>>, FALSE)
    \/ \E auth \in Auths, id \in PostIds, status \in Statuses :
          Review(auth[1], auth[2], id, status)

SpecGuard == InitPost /\ [][NextGuard]_vars


----------------------------------------------------------------------------
(* The claims about posts and resources. *)

Other(c) == CHOOSE d \in Conns : d # c

\* Both connections have their response, both requests were authorized, had
\* a valid time range and listed the single resource r, which one of the
\* callers (at least) owns.
RaceOver(r) ==
    /\ \A c \in Conns :
          /\ req[c].pc = "done"
          /\ req[c].resources = <<r>>
          /\ Va(req[c].caller, req[c].token, {"Post"}) = "Ok"
          /\ validate_time(req[c].time) = "Ok"
    /\ \E c \in Conns : resource[r].owner = req[c].caller

\* C1: of two concurrent, otherwise valid new_post requests that list the same
\* single unused resource, owned by a caller, exactly one succeeds and the other fails with
\* PermissionDenied or ResourceUsed, whatever the interleaving; afterwards
\* exactly one live post lists the resource; and no request ever validates
\* (claims) a resource that is already used.
C1_OneWinner ==
    /\ [](\A r \in ResIds :
            RaceOver(r) =>
                /\ \E c \in Conns :
                      /\ req[c].result = "Ok"
                      /\ req[Other(c)].result \in {"PermissionDenied", "ResourceUsed"}
                /\ Cardinality(Referencing(r)) = 1
                /\ resource[r].used)
    /\ [][\A c \in Conns :
            req'[c].validated > req[c].validated =>
                /\ ~resource[req[c].cur].used
                /\ resource'[req[c].cur].used]_vars

\* Two requests of the owner raced for resource 1: one won, the other found
\* the resource used.
C1_Witness ==
    /\ RaceOver(1)
    /\ {req[c].result : c \in Conns} = {"Ok", "ResourceUsed"}
    /\ \A c \in Conns : req[c].caller = Author

\* C2: every used resource is listed by exactly one live post.
C2_UsedHasOnePost ==
    \A r \in DOMAIN resource : resource[r].used => Cardinality(Referencing(r)) = 1

Statuses_(p) == [i \in DOMAIN p.states |-> p.states[i].status]

\* C3: a review by a holder of ReviewPost with status Approved or Rejected
\* fails with InvalidPostStatus and changes no post when the post's current
\* status is that status; otherwise it succeeds and appends exactly one state
\* with that status and the reviewer as operator; and no history holds two
\* consecutive Approved or two consecutive Rejected states.
C3_Review ==
    /\ [][\A auth \in Auths, id \in DOMAIN post, status \in {"Approved", "Rejected"} :
            (Va(auth[1], auth[2], {"ReviewPost"}) = "Ok"
                /\ Review(auth[1], auth[2], id, status)) =>
                IF CurState(post[id]).status = status
                THEN reply' = "InvalidPostStatus" /\ post' = post
                ELSE /\ reply' = "Ok"
                     /\ post' = [post EXCEPT ![id].states =
                                    Append(@, State(status, auth[1]))]]_vars
    /\ [](\A id \in DOMAIN post : \A i \in 1 .. Len(post[id].states) - 1 :
            post[id].states[i].status \in {"Approved", "Rejected"} =>
                post[id].states[i + 1].status # post[id].states[i].status)

\* A post went through Approved, Rejected, Approved, and a further Approved
\* was refused.
C3_Witness ==
    /\ reply = "InvalidPostStatus"
    /\ \E id \in DOMAIN post :
          Statuses_(post[id]) = <<"Pending", "Approved", "Rejected", "Approved">>

----------------------------------------------------------------------------
(* The account service: verification contexts, registration and login.     *)

MaxTokens == 3      \* tokens issued by logins, over all accounts
MaxNow == 20        \* the clock runs up to MaxNow minutes

UNIX_EPOCH == 0     \* OffsetDateTime::UNIX_EPOCH, in minutes
LEAST_DURATION == 10 \* the least duration between two captcha requests, in minutes

Captchas == {1, 2}
Passwords == {"pw1", "pw2"}

\* The permissions every registered account starts with.
DefaultPermissions ==
    {"GetPubPost", "Post", "UploadResource", "ViewSimpleAccount", "GetPubNotifications"}

\* Error::to_status_code.
StatusCode(err) ==
    IF err \in {"VerifySessionNotFound", "ResourceUploadSessionNotFound",
                "AccountNotFound", "TargetAccountNotFound", "UnverifiedAccountNotFound",
                "ResourceNotFound", "NotificationNotFound"} THEN 404
    ELSE IF err = "ReqTooFrequent" THEN 429
    ELSE IF err = "EmailAddress" THEN 400
    ELSE IF err \in {"Lettre", "Smtp"} THEN 500
    ELSE IF err = "NotLoggedIn" THEN 401
    ELSE IF err \in {"HeaderNonAscii", "InvalidAuthHeader"} THEN 400
    ELSE IF err = "ResourceUsed" THEN 409
    ELSE IF err \in {"Database", "Unknown", "ResourceSaveFailed"} THEN 500
    ELSE 403

\* Unverified::new: only an address of the school is accepted.
UnverifiedNew(email) ==
    IF email \in SchoolEmails THEN "Ok" ELSE "EmailDomainNotInSchool"

\* VerifyCx::new: a context that never sent a captcha.
VerifyCxNew(captcha) == [captcha |-> captcha, last_req |-> UNIX_EPOCH]

\* An update without the waiting time: every request renews the captcha.
update_always(cx, captcha) ==
    [result |-> "Ok", cx |-> [captcha |-> captcha, last_req |-> now]]

\* VerifyCx::update with the captcha drawn by Captcha::new: a new captcha is
\* issued unless the last request is less than LEAST_DURATION ago, and then
\* ReqTooFrequent carries the time that is left to wait.
update(cx, captcha) ==
    IF now - cx.last_req >= LEAST_DURATION
    THEN [result |-> "Ok", cx |-> [captcha |-> captcha, last_req |-> now]]
    ELSE [result |-> "ReqTooFrequent", cx |-> cx,
          remaining |-> LEAST_DURATION - (now - cx.last_req)]

\* VerifyCx::send_email: the context is updated first; a failing delivery
\* comes after and rolls nothing back.
send_email(cx, captcha, delivered) ==
    LET u == update(cx, captcha)
    IN  IF u.result # "Ok" THEN u
        ELSE IF delivered THEN u
        ELSE [result |-> "Smtp", cx |-> u.cx]

\* A verification that accepts every captcha.
to_verified_ext_any(cx, captcha) == "Ok"

\* VerifyCx::to_verified_ext: the captcha of the request is compared with
\* the one of the context.
to_verified_ext(cx, captcha) ==
    IF cx.captcha # captcha THEN "CaptchaIncorrect" ELSE "Ok"

\* Tags::retain_user_definable on the Permission entry: the permissions of
\* the request are dropped.
retain_user_definable(perms) == NoneOpt

\* Tags::initialize_permissions: a missing Permission entry is created with
\* the default permissions.
initialize_permissions(perms) ==
    IF perms = NoneOpt THEN Some(DefaultPermissions) ELSE perms

\* Unverified::verify: the account that a verified registration yields, with
\* the token expiry dur of the library.
Verified(email, password, perms, dur) ==
    [email |-> email, password |-> password, tokens |-> {},
     perms |-> initialize_permissions(retain_user_definable(perms)),
     token_expire_time |-> dur, verifies |-> NoneOpt]

\* Token expiry durations, in minutes.
Durations == {10}

\* send_captcha: refused for an email that has an account; an existing
\* pending record gets a new captcha in place; otherwise a new pending record
\* is inserted once its captcha was sent.
SendCaptcha(email, delivered) ==
    /\ LET h == EmailHash(email) IN
       IF UnverifiedNew(email) # "Ok"
       THEN Answer(UnverifiedNew(email)) /\ UNCHANGED unverified_account
       ELSE IF h \in DOMAIN account
       THEN Answer("PermissionDenied") /\ UNCHANGED unverified_account
       ELSE \E captcha \in Captchas :
            IF h \in DOMAIN unverified_account /\ unverified_account[h].email = email
            THEN LET s == send_email(unverified_account[h].cx, captcha, delivered)
                 IN  /\ Answer(s.result)
                     /\ unverified_account' = [unverified_account EXCEPT ![h].cx = s.cx]
            ELSE LET s == send_email(VerifyCxNew(captcha), captcha, delivered)
                 IN  /\ Answer(s.result)
                     /\ IF s.result = "Ok"
                        THEN unverified_account' =
                                Insert(unverified_account, h, [email |-> email, cx |-> s.cx])
                        ELSE UNCHANGED unverified_account
    /\ UNCHANGED <<account, post, resource, now, today, req, next_token, upload_state, sending, notification>>

\* register that keeps the pending record after a verified registration.
RegisterKeep(email, password, captcha, perms) ==
    /\ LET h == EmailHash(email) IN
       IF UnverifiedNew(email) # "Ok"
       THEN Answer(UnverifiedNew(email)) /\ UNCHANGED <<account, unverified_account>>
       ELSE IF h \notin DOMAIN unverified_account
       THEN Answer("UnverifiedAccountNotFound") /\ UNCHANGED <<account, unverified_account>>
       ELSE LET v == to_verified_ext(unverified_account[h].cx, captcha) IN
            IF v = "Ok"
            THEN /\ UNCHANGED unverified_account
                 /\ \E dur \in Opt(Durations) :
                       account' = [id \in DOMAIN account \cup {h} |->
                                     IF id = h THEN Verified(email, password, perms, dur)
                                     ELSE account[id]]
                 /\ Answer("Ok")
            ELSE Answer(v) /\ UNCHANGED <<account, unverified_account>>
    /\ UNCHANGED <<post, resource, now, today, req, next_token, upload_state, sending, notification>>

\* register: the pending record is taken out of its world; a correct captcha
\* turns it into an account, a wrong one puts it back and fails.
Register(email, password, captcha, perms) ==
    /\ LET h == EmailHash(email) IN
       IF UnverifiedNew(email) # "Ok"
       THEN Answer(UnverifiedNew(email)) /\ UNCHANGED <<account, unverified_account>>
       ELSE IF h \notin DOMAIN unverified_account
       THEN Answer("UnverifiedAccountNotFound") /\ UNCHANGED <<account, unverified_account>>
       ELSE LET removed == Destroy(unverified_account, {h})
                v == to_verified_ext(unverified_account[h].cx, captcha)
            IN  IF v = "Ok"
                THEN /\ unverified_account' = removed
                     /\ IF h \in DOMAIN account
                        THEN Answer("PermissionDenied") /\ UNCHANGED account
                        ELSE /\ \E dur \in Opt(Durations) :
                                   account' = Insert(account, h,
                                                Verified(email, password, perms, dur))
                             /\ Answer("Ok")
                ELSE /\ unverified_account' = Insert(removed, h, unverified_account[h])
                     /\ Answer(v)
                     /\ UNCHANGED account
    /\ UNCHANGED <<post, resource, now, today, req, next_token, upload_state, sending, notification>>

\* Account::login: a matching password issues a token that was never issued
\* before; it expires after the account's token expiry, if it has one.
login(acc, password) ==
    IF acc.password # password THEN [result |-> "PasswordIncorrect", account |-> acc]
    ELSE [result |-> "Ok",
          account |-> [acc EXCEPT !.tokens = @ \cup
                        {[token |-> next_token,
                          exp |-> IF acc.token_expire_time = NoneOpt THEN NoneOpt
                                  ELSE Some(now + acc.token_expire_time[1])]}]]

\* login that passes the library's error on.
LoginLeaky(email, password) ==
    /\ LET h == EmailHash(email) IN
       IF UnverifiedNew(email) # "Ok"
       THEN Answer(UnverifiedNew(email)) /\ UNCHANGED <<account, next_token>>
       ELSE IF h \notin DOMAIN account
       THEN Answer("UsernameOrPasswordIncorrect") /\ UNCHANGED <<account, next_token>>
       ELSE LET l == login(account[h], password) IN
            IF l.result = "Ok"
            THEN /\ next_token <= MaxTokens
                 /\ account' = [account EXCEPT ![h] = l.account]
                 /\ next_token' = next_token + 1
                 /\ Answer("Ok")
            ELSE Answer(l.result) /\ UNCHANGED <<account, next_token>>
    /\ UNCHANGED <<unverified_account, post, resource, now, today, req, upload_state, sending, notification>>

\* login: an email without account and a wrong password give the same error;
\* a matching password issues a token (at most MaxTokens in the model).
Login(email, password) ==
    /\ LET h == EmailHash(email) IN
       IF UnverifiedNew(email) # "Ok"
       THEN Answer(UnverifiedNew(email)) /\ UNCHANGED <<account, next_token>>
       ELSE IF h \notin DOMAIN account
       THEN Answer("UsernameOrPasswordIncorrect") /\ UNCHANGED <<account, next_token>>
       ELSE LET l == login(account[h], password) IN
            IF l.result = "Ok"
            THEN /\ next_token <= MaxTokens
                 /\ account' = [account EXCEPT ![h] = l.account]
                 /\ next_token' = next_token + 1
                 /\ Answer("Ok")
            ELSE /\ Answer(IF l.result = "PasswordIncorrect"
                           THEN "UsernameOrPasswordIncorrect" ELSE l.result)
                 /\ UNCHANGED <<account, next_token>>
    /\ UNCHANGED <<unverified_account, post, resource, now, today, req, upload_state, sending, notification>>

\* d minutes pass.
Tick(d) ==
    /\ now + d <= MaxNow
    /\ now' = now + d
    /\ UNCHANGED <<account, unverified_account, post, resource, today, req, reply, next_token, upload_state, sending, notification>>

\* The service starts with empty worlds, later than LEAST_DURATION after the
\* epoch.
InitRegister ==
    /\ account = EmptyWorld
    /\ unverified_account = EmptyWorld
    /\ post = EmptyWorld
    /\ resource = EmptyWorld
    /\ now = LEAST_DURATION
    /\ today = 1
    /\ req = [c \in Conns |-> IdleReq]
    /\ reply = ""
    /\ next_token = 1
    /\ InitDisk
    /\ sending = {}
    /\ notification = EmptyWorld

\* Registration and login; a registration may ask for a permission.
NextRegister ==
    \/ \E email \in Emails, delivered \in BOOLEAN :
          SendCaptcha(email, delivered)
    \/ \E email \in Emails, captcha \in Captchas, perms \in {NoneOpt, Some({"SetPermissions"})} :
          Register(email, "pw1", captcha, perms)
    \/ \E email \in Emails, password \in Passwords :
          Login(email, password)
    \/ Tick(5)

SpecRegister == InitRegister /\ [][NextRegister]_vars

----------------------------------------------------------------------------
(* The claims about registration and login. *)

\* C6: a register whose captcha differs from the one of the pending record
\* fails with CaptchaIncorrect and changes neither the accounts nor the
\* pending records (the record and its captcha stay as they were); a register
\* with the captcha of the pending record, as the one that follows such a
\* failure, succeeds and creates the account with the password of the request.
C6_WrongCaptcha ==
    [][\A email \in Emails, captcha \in Captchas, perms \in Opt({{"SetPermissions"}}) :
        (/\ EmailHash(email) \in DOMAIN unverified_account
         /\ Register(email, "pw1", captcha, perms)) =>
            IF unverified_account[EmailHash(email)].cx.captcha # captcha
            THEN /\ reply' = "CaptchaIncorrect"
                 /\ account' = account
                 /\ unverified_account' = unverified_account
            ELSE /\ reply' = "Ok"
                 /\ EmailHash(email) \in DOMAIN account'
                 /\ account'[EmailHash(email)].password = "pw1"]_vars

\* A register for EmailA just failed on its captcha: the record is pending
\* and no account exists.
C6_Witness ==
    /\ reply = "CaptchaIncorrect"
    /\ DOMAIN unverified_account = {EmailHash(EmailA)}
    /\ account = EmptyWorld

\* C7: a successful register removes the pending record of its email and
\* creates its account; a register for an email that has an account (as the
\* second register with the same captcha) fails and leaves every account as
\* it is; an account never coexists with a pending record of its email, and
\* no two accounts have the same email.
C7_Consumed ==
    /\ [][\A email \in Emails, captcha \in Captchas, perms \in Opt({{"SetPermissions"}}) :
            Register(email, "pw1", captcha, perms) =>
                /\ reply' = "Ok" =>
                      /\ EmailHash(email) \notin DOMAIN unverified_account'
                      /\ EmailHash(email) \in DOMAIN account'
                      /\ EmailHash(email) \notin DOMAIN account
                /\ EmailHash(email) \in DOMAIN account =>
                      /\ reply' \notin {"Ok", ""}
                      /\ account' = account]_vars
    /\ [](/\ DOMAIN account \cap DOMAIN unverified_account = {}
          /\ \A a, b \in DOMAIN account :
                account[a].email = account[b].email => a = b
          /\ \A a \in DOMAIN account : EmailHash(account[a].email) = a)

\* Both school emails are registered and the last register found no pending
\* record: it was a further register for a registered email.
C7_Witness ==
    /\ DOMAIN account = {Author, Reviewer}
    /\ reply = "UnverifiedAccountNotFound"

----------------------------------------------------------------------------
(* The account service: sessions, password reset and permissions.          *)

\* Account::logout: the token is removed from the account's tokens; a token
\* that is not among them is an error.
logout(acc, token) ==
    IF \E t \in acc.tokens : t.token = token
    THEN [result |-> "Ok",
          account |-> [acc EXCEPT !.tokens = {t \in @ : t.token # token}]]
    ELSE [result |-> "InvalidToken", account |-> acc]

\* logout that ends every session of the account.
LogoutAll(caller, token) ==
    /\ LET v == Va(caller, token, {}) IN
       IF v # "Ok" THEN Answer(v) /\ UNCHANGED account
       ELSE /\ Answer("Ok")
            /\ account' = [account EXCEPT ![caller].tokens = {}]
    /\ UNCHANGED <<unverified_account, post, resource, now, today, req, next_token, upload_state, sending, notification>>

\* logout: the request is validated, then its token is removed.
Logout(caller, token) ==
    /\ LET v == Va(caller, token, {}) IN
       IF v # "Ok" THEN Answer(v) /\ UNCHANGED account
       ELSE LET l == logout(account[caller], token)
            IN  /\ Answer(l.result)
                /\ account' = [account EXCEPT ![caller] = l.account]
    /\ UNCHANGED <<unverified_account, post, resource, now, today, req, next_token, upload_state, sending, notification>>

\* Account::req_reset_password: the reset context of the account is created
\* if there is none, and a captcha is sent from it.
req_reset_password(acc, captcha, delivered) ==
    LET cx == IF acc.verifies = NoneOpt THEN VerifyCxNew(captcha) ELSE acc.verifies[1]
        s == send_email(cx, captcha, delivered)
    IN  [result |-> s.result, account |-> [acc EXCEPT !.verifies = Some(s.cx)]]

\* send_reset_password_captcha.
SendResetPasswordCaptcha(email, delivered) ==
    /\ LET h == EmailHash(email) IN
       IF UnverifiedNew(email) # "Ok"
       THEN Answer(UnverifiedNew(email)) /\ UNCHANGED account
       ELSE IF h \notin DOMAIN account
       THEN Answer("PermissionDenied") /\ UNCHANGED account
       ELSE \E captcha \in Captchas :
              LET r == req_reset_password(account[h], captcha, delivered)
              IN  /\ Answer(r.result)
                  /\ account' = [account EXCEPT ![h] = r.account]
    /\ UNCHANGED <<unverified_account, post, resource, now, today, req, next_token, upload_state, sending, notification>>

\* Account::reset_password: needs the reset context and its captcha; sets
\* the password and ends the reset context.
reset_password(acc, captcha, new_password) ==
    IF acc.verifies = NoneOpt THEN [result |-> "VerifySessionNotFound", account |-> acc]
    ELSE IF acc.verifies[1].captcha # captcha
    THEN [result |-> "CaptchaIncorrect", account |-> acc]
    ELSE [result |-> "Ok",
          account |-> [acc EXCEPT !.password = new_password, !.verifies = NoneOpt]]

\* reset_password that keeps the tokens.
ResetPasswordKeepTokens(email, captcha, new_password) ==
    /\ LET h == EmailHash(email) IN
       IF UnverifiedNew(email) # "Ok"
       THEN Answer(UnverifiedNew(email)) /\ UNCHANGED account
       ELSE IF h \notin DOMAIN account
       THEN Answer("PermissionDenied") /\ UNCHANGED account
       ELSE LET r == reset_password(account[h], captcha, new_password)
            IN  /\ Answer(r.result)
                /\ account' = [account EXCEPT ![h] = r.account]
    /\ UNCHANGED <<unverified_account, post, resource, now, today, req, next_token, upload_state, sending, notification>>

\* reset_password: after the password is reset all tokens are cleared.
ResetPassword(email, captcha, new_password) ==
    /\ LET h == EmailHash(email) IN
       IF UnverifiedNew(email) # "Ok"
       THEN Answer(UnverifiedNew(email)) /\ UNCHANGED account
       ELSE IF h \notin DOMAIN account
       THEN Answer("PermissionDenied") /\ UNCHANGED account
       ELSE LET r == reset_password(account[h], captcha, new_password)
            IN  /\ Answer(r.result)
                /\ account' = [account EXCEPT ![h] =
                                 IF r.result = "Ok" THEN [r.account EXCEPT !.tokens = {}]
                                 ELSE r.account]
    /\ UNCHANGED <<unverified_account, post, resource, now, today, req, next_token, upload_state, sending, notification>>

\* modify (of an account), for the token expiry and the password: a duration
\* of zero sets nothing; the old password must match, after the expiry has
\* been set.
ModifyAccount(caller, token, token_expire_duration, password) ==
    /\ LET v == Va(caller, token, {}) IN
       IF v # "Ok" THEN Answer(v) /\ UNCHANGED account
       ELSE LET a1 == IF token_expire_duration # NoneOpt /\ token_expire_duration[1] # 0
                      THEN [account[caller] EXCEPT
                                !.token_expire_time = Some(token_expire_duration[1])]
                      ELSE account[caller]
            IN  IF password = NoneOpt
                THEN Answer("Ok") /\ account' = [account EXCEPT ![caller] = a1]
                ELSE IF a1.password = password[1].old
                THEN /\ Answer("Ok")
                     /\ account' = [account EXCEPT ![caller] =
                                      [a1 EXCEPT !.password = password[1].new]]
                ELSE /\ Answer("UsernameOrPasswordIncorrect")
                     /\ account' = [account EXCEPT ![caller] = a1]
    /\ UNCHANGED <<unverified_account, post, resource, now, today, req, next_token, upload_state, sending, notification>>

\* set_permissions that grants what was asked for.
SetPermissionsUncapped(caller, token, target, permissions) ==
    /\ LET v == Va(caller, token, {"SetPermissions"}) IN
       IF v # "Ok" THEN Answer(v) /\ UNCHANGED account
       ELSE IF target \notin DOMAIN account
       THEN Answer("TargetAccountNotFound") /\ UNCHANGED account
       ELSE /\ Answer("Ok")
            /\ account' = [account EXCEPT ![target].perms = Some(permissions)]
    /\ UNCHANGED <<unverified_account, post, resource, now, today, req, next_token, upload_state, sending, notification>>

\* set_permissions that refuses a request beyond the caller's permissions.
SetPermissionsStrict(caller, token, target, permissions) ==
    /\ LET v == Va(caller, token, {"SetPermissions"}) IN
       IF v # "Ok" THEN Answer(v) /\ UNCHANGED account
       ELSE IF target \notin DOMAIN account
       THEN Answer("TargetAccountNotFound") /\ UNCHANGED account
       ELSE IF ~(permissions \subseteq account[caller].perms[1])
       THEN Answer("PermissionDenied") /\ UNCHANGED account
       ELSE /\ Answer("Ok")
            /\ account' = [account EXCEPT ![target].perms = Some(permissions)]
    /\ UNCHANGED <<unverified_account, post, resource, now, today, req, next_token, upload_state, sending, notification>>

\* set_permissions: the permissions asked for are cut down to those of the
\* caller (legal_perms); they replace the target's Permission entry if the
\* target has none or one within the caller's, and the answer is Ok either
\* way.  With the caller as target the handler waits for a mutable handle on
\* the record it holds a read handle on, and never answers.
SetPermissions(caller, token, target, permissions) ==
    /\ LET v == Va(caller, token, {"SetPermissions"}) IN
       IF v # "Ok" THEN Answer(v) /\ UNCHANGED account
       ELSE IF account[caller].perms = NoneOpt
       THEN Answer("PermissionDenied") /\ UNCHANGED account
       ELSE LET this == account[caller]
                legal_perms == permissions \cap this.perms[1]
            IN  IF target \notin DOMAIN account
                THEN Answer("TargetAccountNotFound") /\ UNCHANGED account
                ELSE IF target = caller
                THEN Answer("NoResponse") /\ UNCHANGED account
                ELSE /\ Answer("Ok")
                     /\ IF \/ account[target].perms = NoneOpt
                           \/ account[target].perms[1] \subseteq this.perms[1]
                        THEN account' = [account EXCEPT ![target].perms =
                                            Some(legal_perms)]
                        ELSE UNCHANGED account
    /\ UNCHANGED <<unverified_account, post, resource, now, today, req, next_token, upload_state, sending, notification>>

\* Account::new followed by logins that issued tokens.
AccountNew(email, password, perms, dur, tokens) ==
    [email |-> email, password |-> password, tokens |-> tokens, perms |-> perms,
     token_expire_time |-> dur, verifies |-> NoneOpt]

\* The permissions of the requests and of the accounts at the start.
PermUniverse == {"SetPermissions", "Post", "ReviewPost"}
AuthorPerms == {Some({"SetPermissions", "Post"}), Some(PermUniverse)}
ReviewerPerms == {NoneOpt, Some({"Post"}), Some({"SetPermissions", "ReviewPost"})}

\* Two accounts that were inserted with their permissions and are logged in:
\* the author with a token that does not expire, the reviewer with a token
\* that expires, as those of its later logins do.
InitAccounts(perms1, perms2) ==
    /\ \E p1 \in perms1, p2 \in perms2 :
          account = [u \in PostUsers |->
                       IF u = Author
                       THEN AccountNew(EmailA, "pw1", p1, NoneOpt,
                                       {[token |-> 1, exp |-> NoneOpt]})
                       ELSE AccountNew(EmailB, "pw1", p2, Some(LEAST_DURATION),
                                       {[token |-> 2, exp |-> Some(2 * LEAST_DURATION)]})]
    /\ unverified_account = EmptyWorld
    /\ post = EmptyWorld
    /\ resource = [r \in ResIds |->
                    [owner |-> IF r % 2 = 1 THEN Author ELSE Reviewer, used |-> FALSE]]
    /\ now = LEAST_DURATION
    /\ today = 1
    /\ req = [c \in Conns |-> IdleReq]
    /\ reply = ""
    /\ next_token = 3
    /\ InitDisk
    /\ sending = {}
    /\ notification = EmptyWorld

\* The credentials of the requests: the accounts with their own token, the
\* author with the reviewer's token, the reviewer with token 0, which is never
\* issued, and an account that does not exist; where there are logins, also
\* the tokens that these issue.
AccountIds == PostUsers \cup {"u0"}
SessionAuths == {<<Author, 1>>, <<Reviewer, 2>>, <<Author, 2>>, <<Reviewer, 0>>, <<"u0", 1>>}
LoginAuths == SessionAuths \cup {<<a, t>> : a \in PostUsers, t \in 3 .. MaxTokens}
SessionPerms == {{}, {"Post"}, {"SetPermissions", "ReviewPost"}}

\* Permission requests only, from every combination of permissions.
InitPerm == InitAccounts(AuthorPerms, ReviewerPerms)

NextPerm ==
    \E auth \in SessionAuths, target \in AccountIds, permissions \in SUBSET PermUniverse :
        SetPermissions(auth[1], auth[2], target, permissions)

SpecPerm == InitPerm /\ [][NextPerm]_vars

\* Logins and logouts, with the creation of a post as a request that needs
\* a valid token.
InitLogin == InitAccounts({Some({"Post"})}, {Some({"Post"})})

NextLogin ==
    \/ \E email \in Emails, password \in Passwords :
          Login(email, password)
    \/ \E auth \in LoginAuths :
          Logout(auth[1], auth[2])
    \/ \E auth \in LoginAuths, dur \in Opt({0} \cup Durations),
          password \in Opt({[old |-> "pw1", new |-> "pw2"]}) :
          ModifyAccount(auth[1], auth[2], dur, password)
    \/ \E auth \in LoginAuths :
          NewPost(auth[1], auth[2], "t1", <<1, 1>>, <<1>>, FALSE)
    \/ Tick(LEAST_DURATION)

SpecLogin == InitLogin /\ [][NextLogin]_vars

\* Logouts, password resets and permissions, with the creation of a post from
\* the reviewer's resource as a request that needs a permission.  Passwords
\* are reset for the reviewer and for the foreign address.
InitSession == InitAccounts({Some(PermUniverse)}, {Some({"SetPermissions", "Post"})})

NextSession ==
    \/ \E auth \in SessionAuths, target \in PostUsers, permissions \in SessionPerms :
          SetPermissions(auth[1], auth[2], target, permissions)
    \/ \E auth \in SessionAuths :
          Logout(auth[1], auth[2])
    \/ \E email \in {EmailB, EmailOther}, delivered \in BOOLEAN :
          SendResetPasswordCaptcha(email, delivered)
    \/ \E email \in {EmailB, EmailOther}, captcha \in Captchas :
          ResetPassword(email, captcha, "pw2")
    \/ \E auth \in SessionAuths :
          NewPost(auth[1], auth[2], "t1", <<1, 1>>, <<2>>, FALSE)
    \/ Tick(LEAST_DURATION)

SpecSession == InitSession /\ [][NextSession]_vars

----------------------------------------------------------------------------
(* The claims about permissions and sessions. *)

\* The request of account a with this token is valid and a holds the needed
\* permissions, in the current state.
Authorized(a, token, needed) ==
    /\ a \in DOMAIN account
    /\ IsTokenValid(account[a], token)
    /\ \A p \in needed : ContainsPermission(account[a], p)

\* C4: whenever a set_permissions request of account A with the permissions
\* Q changes the Permission entry of its target, A has a Permission entry P
\* and the target's new entry is exactly Q \cap P, so it holds no permission
\* that A does not hold; the entries of all other accounts stay as they are.
C4_Delegation ==
    [][\A auth \in SessionAuths, target \in DOMAIN account, Q \in SUBSET PermUniverse :
        (/\ SetPermissions(auth[1], auth[2], target, Q)
         /\ account'[target].perms # account[target].perms) =>
            /\ auth[1] \in DOMAIN account
            /\ account[auth[1]].perms # NoneOpt
            /\ account'[target].perms = Some(Q \cap account[auth[1]].perms[1])
            /\ account'[target].perms[1] \subseteq account[auth[1]].perms[1]
            /\ \A other \in DOMAIN account \ {target} :
                  account'[other] = account[other]]_vars

\* The reviewer started without the permission SetPermissions and was given
\* it, and nothing else, by the author.
C4_Witness ==
    /\ reply = "Ok"
    /\ account[Reviewer].perms = Some({"SetPermissions"})
    /\ "SetPermissions" \in account[Author].perms[1]

ValidAfter(a, token) ==
    \E t \in account'[a].tokens :
        /\ t.token = token
        /\ (t.exp = NoneOpt \/ t.exp[1] > now')

\* C8: a logout with a valid token answers Ok and removes that token and no
\* other from the account's tokens, so that the token is invalid afterwards
\* and every other token that was valid still is; a logout with a token that
\* is not valid fails (InvalidToken; PermissionDenied if the account does
\* not exist) and changes no account; no other account changes; and a token
\* that was issued and is invalid never becomes valid again.
C8_Logout ==
    /\ [][\A auth \in LoginAuths :
            Logout(auth[1], auth[2]) =>
                IF Authorized(auth[1], auth[2], {})
                THEN /\ reply' = "Ok"
                     /\ account'[auth[1]].tokens =
                           {t \in account[auth[1]].tokens : t.token # auth[2]}
                     /\ ~ValidAfter(auth[1], auth[2])
                     /\ \A t \in 0 .. MaxTokens \ {auth[2]} :
                           IsTokenValid(account[auth[1]], t) => ValidAfter(auth[1], t)
                     /\ \A other \in DOMAIN account \ {auth[1]} :
                           account'[other] = account[other]
                ELSE /\ reply' = IF auth[1] \in DOMAIN account
                                 THEN "InvalidToken" ELSE "PermissionDenied"
                     /\ account' = account]_vars
    /\ [][\A a \in DOMAIN account, t \in 1 .. MaxTokens :
            (t < next_token /\ ~IsTokenValid(account[a], t)) => ~ValidAfter(a, t)]_vars

\* The author logged in again and logged out with the first token: the
\* second token is still valid.
C8_Witness ==
    /\ reply = "Ok"
    /\ account[Author].tokens = {[token |-> 3, exp |-> NoneOpt]}

\* C9: every request that needs a valid token, and maybe permissions, is
\* decided on the account as it is when the request arrives: if the account
\* is missing, the token is not among its valid tokens or a needed permission
\* is not in its Permission entry, the request is rejected (InvalidToken for
\* the token, else PermissionDenied) and changes nothing.  After a logout
\* its token is invalid, after a password reset the account has no token, and
\* after a change of a Permission entry the permissions outside the new entry
\* are not held: the next request that relies on any of them is rejected.
Rejected(a, token) ==
    /\ reply' = IF a \in DOMAIN account /\ ~IsTokenValid(account[a], token)
                THEN "InvalidToken" ELSE "PermissionDenied"
    /\ UNCHANGED <<account, unverified_account, post, resource, upload_state, sending, notification>>

C9_FreshCheck ==
    /\ [][\A auth \in SessionAuths :
            /\ \A target \in PostUsers, Q \in SessionPerms :
                  (/\ ~Authorized(auth[1], auth[2], {"SetPermissions"})
                   /\ SetPermissions(auth[1], auth[2], target, Q))
                      => Rejected(auth[1], auth[2])
            /\ (~Authorized(auth[1], auth[2], {}) /\ Logout(auth[1], auth[2]))
                  => Rejected(auth[1], auth[2])
            /\ (/\ ~Authorized(auth[1], auth[2], {"Post"})
                /\ NewPost(auth[1], auth[2], "t1", <<1, 1>>, <<2>>, FALSE))
                  => Rejected(auth[1], auth[2])]_vars
    /\ [][\A auth \in SessionAuths :
            (Authorized(auth[1], auth[2], {}) /\ Logout(auth[1], auth[2]))
                => ~ValidAfter(auth[1], auth[2])]_vars
    /\ [][\A email \in SchoolEmails, captcha \in Captchas :
            (ResetPassword(email, captcha, "pw2") /\ reply' = "Ok")
                => \A t \in 0 .. MaxTokens : ~ValidAfter(EmailHash(email), t)]_vars
    /\ [][\A a \in DOMAIN account, p \in PermUniverse :
            (ContainsPermission(account[a], p) /\ ~ContainsPermission(account'[a], p))
                => \A auth \in SessionAuths :
                      auth[1] = a => ~(Authorized(auth[1], auth[2], {p}))']_vars

\* The reviewer lost its permissions to a set_permissions request and its
\* tokens to a password reset, the author logged out, and the last request
\* was rejected for its token.
C9_Witness ==
    /\ reply = "InvalidToken"
    /\ account[Reviewer].perms = Some({})
    /\ account[Reviewer].password = "pw2"
    /\ account[Author].tokens = {}
    /\ account[Reviewer].tokens = {}

----------------------------------------------------------------------------
(* The claims about the handlers of posts. *)

\* What the claim expects of a time range: out of bound when it is longer
\* than 7 days or reversed; ended when its span is in bound and it ends before
\* today; accepted when its span is exactly 7 days and it ends today or
\* later.  Other ranges are left open ("Any").
ExpectedTime(time) ==
    IF time[2] - time[1] > 7 \/ time[2] < time[1] THEN "PostTimeRangeOutOfBound"
    ELSE IF time[2] < today THEN "PostTimeEnded"
    ELSE IF time[2] - time[1] = 7 THEN "Ok"
    ELSE "Any"

\* C12: the validation of a time range, in new_post and in modify alike,
\* fails with PostTimeRangeOutOfBound for a range longer than 7 days and for a
\* range whose end precedes its start, fails with PostTimeEnded for a range
\* that ends before today, and accepts a range of exactly 7 days that ends
\* today or later; modify stores the range only when it is accepted.
C12_TimeRange ==
    [][\A time \in TimeInputs :
        /\ (/\ 1 \in DOMAIN resource
            /\ ~resource[1].used
            /\ NewPost(Author, 1, "t1", time, <<1>>, FALSE)) =>
               /\ ExpectedTime(time) # "Any" => reply' = ExpectedTime(time)
               /\ reply' = "Ok" <=> DOMAIN post' # DOMAIN post
        /\ \A id \in DOMAIN post :
              Modify(Author, 1, id, NoneOpt, NoneOpt, Some(time), NoneOpt) =>
                 /\ ExpectedTime(time) # "Any" => reply' = ExpectedTime(time)
                 /\ post'[id].time = (IF reply' = "Ok" THEN time ELSE post[id].time)]_vars

\* A post whose range is exactly 7 days long exists, and on day 2 a request
\* with a range that ended before was just refused.
C12_Witness ==
    /\ reply = "PostTimeEnded"
    /\ today = 2
    /\ \E id \in DOMAIN post : post[id].time[2] - post[id].time[1] = 7


\* C13: new_post validates the time range before any side effect: a request
\* with an invalid time range fails, claims no resource (every used flag is
\* as before) and inserts no post.
C13_ValidateFirst ==
    [][\A time \in TimeInputs :
        (/\ validate_time(time) # "Ok"
         /\ NewPost(Author, 1, "t1", time, <<1>>, FALSE)) =>
            /\ reply' # "Ok"
            /\ resource' = resource
            /\ post' = post]_vars


\* The resources of the list that new_post cannot claim for the caller: they
\* do not exist, are owned by another account or are used already.
Unclaimable(caller, resources) ==
    {r \in SeqElems(resources) :
        \/ r \notin DOMAIN resource
        \/ resource[r].owner # caller
        \/ resource[r].used}

\* The resources of the list that the caller owns and that are used already.
OwnUsed(caller, resources) ==
    {r \in SeqElems(resources) \cap DOMAIN resource :
        resource[r].owner = caller /\ resource[r].used}

\* The resources of the list that the caller owns and that are free.
OwnFree(caller, resources) ==
    {r \in SeqElems(resources) \cap DOMAIN resource :
        resource[r].owner = caller /\ ~resource[r].used}

\* No resource was destroyed or released, and the ones in ids alone may have
\* been claimed.
ClaimedWithin(ids) ==
    /\ DOMAIN resource' = DOMAIN resource
    /\ \A r \in DOMAIN resource :
          /\ resource'[r].owner = resource[r].owner
          /\ resource[r].used => resource'[r].used
          /\ r \notin ids => resource'[r] = resource[r]

\* C14 as stated: a new_post that cannot claim every listed resource (one is
\* missing, not owned by the caller or used already) fails with
\* PermissionDenied, inserts no post and releases nothing it claimed.
C14_AlwaysDenied ==
    [][\A auth \in GoodAuths, time \in {<<1, 1>>, <<1, 9>>}, resources \in ClaimResources :
        (/\ Unclaimable(auth[1], resources) # {}
         /\ NewPost(auth[1], auth[2], "t1", time, resources, FALSE)) =>
            /\ reply' = "PermissionDenied"
            /\ post' = post
            /\ ClaimedWithin(OwnFree(auth[1], resources))]_vars

\* C14, amended: such a new_post fails with ResourceUsed when a listed
\* resource of the caller is used already, and with PermissionDenied
\* otherwise (a listed resource is missing or owned by another account); it
\* inserts no post, and the listed resources it claimed stay claimed: all the
\* free ones of the caller in the second case.
C14_UsedOrDenied ==
    [][\A auth \in GoodAuths, time \in {<<1, 1>>, <<1, 9>>}, resources \in ClaimResources :
        (/\ Unclaimable(auth[1], resources) # {}
         /\ NewPost(auth[1], auth[2], "t1", time, resources, FALSE)) =>
            /\ reply' = (IF OwnUsed(auth[1], resources) # {}
                         THEN "ResourceUsed" ELSE "PermissionDenied")
            /\ post' = post
            /\ ClaimedWithin(OwnFree(auth[1], resources))
            /\ reply' = "PermissionDenied" =>
                  \A r \in OwnFree(auth[1], resources) : resource'[r].used]_vars

\* A new_post was refused for a used resource while no post exists, and both
\* resources of the author are claimed.
C14_Witness ==
    /\ reply = "ResourceUsed"
    /\ post = EmptyWorld
    /\ 1 \in DOMAIN resource /\ resource[1].used
    /\ 3 \in DOMAIN resource /\ resource[3].used


\* C15: every successful modify appends exactly one Pending state whose
\* operator is the modifier, whatever the patch (also the empty one), so that
\* a post that was Approved or Rejected is Pending afterwards; and a post that
\* is not Approved becomes Approved by a review alone.
C15_ModifyResubmits ==
    [][/\ \A auth \in Auths, id \in DOMAIN post, patch \in ModifyPatches :
            (/\ Modify(auth[1], auth[2], id, patch[1], patch[2], patch[3], patch[4])
             /\ reply' = "Ok") =>
                /\ post'[id].states = Append(post[id].states, State("Pending", auth[1]))
                /\ CurState(post'[id]).status = "Pending"
       /\ \A id \in DOMAIN post \cap DOMAIN post' :
            (/\ CurState(post[id]).status # "Approved"
             /\ CurState(post'[id]).status = "Approved") =>
                \E status \in {"Approved", "Rejected"} : Review(Reviewer, 1, id, status)]_vars

\* An approved post was modified with the empty patch: it is Pending again
\* and nothing else of it changed.
C15_Witness ==
    /\ reply = "Ok"
    /\ \E id \in DOMAIN post :
          /\ Len(post[id].states) = 3
          /\ post[id].states[2].status = "Approved"
          /\ post[id].states[3] = State("Pending", Creator(post[id]))
          /\ post[id].title = "t1" /\ ~post[id].grouped
          /\ post[id].time = <<1, 8>>
          /\ post[id].resources \in {{1}, {2}}


\* C16: after a successful modify that asks for the resource set N on a post
\* whose resources were O, every resource of O \ N is destroyed, every
\* resource of N \ O is claimed (it exists and is used), the resources of
\* both are untouched and the post lists exactly N; and a modify fails when
\* a resource of N \ O is used already.
C16_SwapExact ==
    [][\A auth \in Auths, id \in DOMAIN post, patch \in ModifyPatches :
        (/\ patch[4] # NoneOpt
         /\ Modify(auth[1], auth[2], id, patch[1], patch[2], patch[3], patch[4])) =>
            LET N == patch[4][1]
                O == post[id].resources
            IN  /\ reply' = "Ok" =>
                      /\ \A r \in O \ N : r \notin DOMAIN resource'
                      /\ \A r \in N \ O : r \in DOMAIN resource' /\ resource'[r].used
                      /\ \A r \in (N \cap O) \cap DOMAIN resource :
                            r \in DOMAIN resource' /\ resource'[r] = resource[r]
                      /\ post'[id].resources = N
                /\ (\E r \in (N \ O) \cap DOMAIN resource : resource[r].used) =>
                      reply' # "Ok"]_vars


\* C17: a review succeeds only when the record of the caller holds
\* ReviewPost and the status is Approved or Rejected, and then the appended
\* state has the reviewer as operator; a review with status Pending by a
\* holder of ReviewPost fails with InvalidPostStatus, a review by a caller
\* (with a valid token) that does not hold ReviewPost fails with
\* PermissionDenied, and in both cases no post changes.
C17_ReviewGuard ==
    [][\A auth \in Auths, id \in PostIds, status \in Statuses :
        Review(auth[1], auth[2], id, status) =>
            /\ reply' = "Ok" =>
                  /\ Authorized(auth[1], auth[2], {"ReviewPost"})
                  /\ status \in {"Approved", "Rejected"}
                  /\ id \in DOMAIN post
                  /\ post'[id].states = Append(post[id].states, State(status, auth[1]))
            /\ (Authorized(auth[1], auth[2], {"ReviewPost"}) /\ status = "Pending") =>
                  reply' = "InvalidPostStatus" /\ post' = post
            /\ (Authorized(auth[1], auth[2], {}) /\ ~Authorized(auth[1], auth[2], {"ReviewPost"})) =>
                  reply' = "PermissionDenied" /\ post' = post]_vars

\* A review with status Pending was refused: every post still has its first
\* state alone, so the refusal is not the one of a repeated review result.
C17_Witness ==
    /\ reply = "InvalidPostStatus"
    /\ post # EmptyWorld
    /\ \A id \in DOMAIN post : Len(post[id].states) = 1


\* Accounts with and without Post and RemovePost create posts on one or two
\* resources and remove posts; a request may come with a token that was never
\* issued.
RemovePerms == {NoneOpt, Some({"Post"}), Some({"RemovePost"}), Some({"Post", "RemovePost"})}
RemoveAuths == {<<Author, 1>>, <<Reviewer, 2>>, <<Reviewer, 0>>}

InitRemove == InitAccounts(RemovePerms, RemovePerms)

NextRemove ==
    \/ \E auth \in RemoveAuths, resources \in {<<1>>, <<2>>, <<3>>, <<1, 3>>} :
          NewPost(auth[1], auth[2], "t1", <<1, 8>>, resources, FALSE)
    \/ \E auth \in RemoveAuths, id \in PostIds :
          Remove(auth[1], auth[2], id)

SpecRemove == InitRemove /\ [][NextRemove]_vars

\* The caller may remove the post: it created it or holds RemovePost.
MayRemove(caller, id) ==
    \/ Creator(post[id]) = caller
    \/ ContainsPermission(account[caller], "RemovePost")

\* The post is gone with every resource it listed.
Removed(id) ==
    /\ id \notin DOMAIN post'
    /\ \A r \in post[id].resources : r \notin DOMAIN resource'
    /\ \A other \in DOMAIN post \ {id} : other \in DOMAIN post' /\ post'[other] = post[other]

\* C18 as stated: a remove by the creator of the post or by a holder of
\* RemovePost succeeds, and afterwards neither the post nor a resource it
\* listed exists; a remove by any other caller (with a valid token) fails with
\* PostNotFound and leaves posts and resources as they were.
C18_CreatorOrRemover ==
    [][\A auth \in RemoveAuths, id \in DOMAIN post :
        (/\ Authorized(auth[1], auth[2], {})
         /\ Remove(auth[1], auth[2], id)) =>
            IF MayRemove(auth[1], id)
            THEN reply' = "Ok" /\ Removed(id)
            ELSE reply' = "PostNotFound" /\ post' = post /\ resource' = resource]_vars

\* C18, amended: remove also needs Permission::Post.  A caller (with a valid
\* token) that does not hold Post fails with PermissionDenied; one that holds
\* Post succeeds if it created the post or holds RemovePost, and afterwards
\* neither the post nor a resource it listed exists, and fails with
\* PostNotFound otherwise; a remove that fails leaves posts and resources as
\* they were.
C18_NeedsPost ==
    [][\A auth \in RemoveAuths, id \in DOMAIN post :
        (/\ Authorized(auth[1], auth[2], {})
         /\ Remove(auth[1], auth[2], id)) =>
            IF ~ContainsPermission(account[auth[1]], "Post")
            THEN reply' = "PermissionDenied" /\ post' = post /\ resource' = resource
            ELSE IF MayRemove(auth[1], id)
            THEN reply' = "Ok" /\ Removed(id)
            ELSE reply' = "PostNotFound" /\ post' = post /\ resource' = resource]_vars

\* Both accounts hold Post and one of them RemovePost; every post id is taken
\* and a remove was answered PostNotFound, so it was the remove of another
\* account's post.
C18_Witness ==
    /\ reply = "PostNotFound"
    /\ DOMAIN post = PostIds
    /\ \A u \in PostUsers : ContainsPermission(account[u], "Post")


\* Accounts with and without Post, RemovePost and ReviewPost create posts and
\* ask to modify every post, once per post.
ForeignPerms ==
    {NoneOpt, Some({"Post"}), Some({"RemovePost", "ReviewPost"}),
     Some({"Post", "RemovePost", "ReviewPost"})}

InitForeign == InitAccounts(ForeignPerms, ForeignPerms)

NextForeign ==
    \/ \E auth \in RemoveAuths, r \in {1, 2} :
          NewPost(auth[1], auth[2], "t1", <<1, 8>>, <<r>>, FALSE)
    \/ \E auth \in RemoveAuths, id \in PostIds, patch \in ModifyPatches :
          /\ id \in DOMAIN post => Len(post[id].states) <= 1
          /\ Modify(auth[1], auth[2], id, patch[1], patch[2], patch[3], patch[4])

SpecForeign == InitForeign /\ [][NextForeign]_vars

\* C19 as stated: a modify by an account with a valid token that did not
\* create the post fails with PostNotFound, whatever its permissions, and
\* leaves posts and resources as they were.
C19_ForeignNotFound ==
    [][\A auth \in RemoveAuths, id \in DOMAIN post, patch \in ModifyPatches :
        (/\ Authorized(auth[1], auth[2], {})
         /\ Creator(post[id]) # auth[1]
         /\ Modify(auth[1], auth[2], id, patch[1], patch[2], patch[3], patch[4])) =>
            /\ reply' = "PostNotFound"
            /\ post' = post
            /\ resource' = resource]_vars

\* C19, amended: such a modify fails with PostNotFound when the caller holds
\* Post, whatever else it holds, and with PermissionDenied when it does not;
\* in both cases posts and resources stay as they were.
C19_ForeignHidden ==
    [][\A auth \in RemoveAuths, id \in DOMAIN post, patch \in ModifyPatches :
        (/\ Authorized(auth[1], auth[2], {})
         /\ Creator(post[id]) # auth[1]
         /\ Modify(auth[1], auth[2], id, patch[1], patch[2], patch[3], patch[4])) =>
            /\ reply' = (IF ContainsPermission(account[auth[1]], "Post")
                         THEN "PostNotFound" ELSE "PermissionDenied")
            /\ post' = post
            /\ resource' = resource]_vars

\* Both accounts hold Post, RemovePost and ReviewPost and each created a
\* post; no post id is free, so the modify that was answered PostNotFound was
\* the one of the other account's post.
C19_Witness ==
    /\ reply = "PostNotFound"
    /\ DOMAIN post = PostIds
    /\ \A u \in PostUsers :
          account[u].perms = Some({"Post", "RemovePost", "ReviewPost"})

----------------------------------------------------------------------------
(* filter and get_info: which posts a caller is shown.                     *)

\* FilterPostsParams::DEFAULT_LIMIT
DEFAULT_LIMIT == 64

\* Date::ordinal: the day of the year, for days counted from the first day of
\* a year of YearLen days that a leap year of LeapYearLen days follows, and
\* so on in turns.
YearLen == 365
LeapYearLen == 366
Ordinal(d) ==
    LET r == (d - 1) % (YearLen + LeapYearLen)
    IN  IF r < YearLen THEN r + 1 ELSE r - YearLen + 1

\* RangeInclusive::contains
Contains(time, d) == time[1] <= d /\ d <= time[2]

\* Dimension 3 of a post: whether its current status is Approved.
ApprovedDim(p) == IF CurState(p).status = "Approved" THEN 1 ELSE 0

\* A restriction to the single range from start_o to end_o.
InOnRangesSingle(dim, on) ==
    Ordinal(on - MAX_DUR) <= dim /\ dim <= Ordinal(on + MAX_DUR)

\* The restriction of dimension 1 (the ordinal of the start of the time
\* range) for the date `on`: the range from start_o to end_o, or, when
\* start_o is greater than end_o, the range from start_o on together with
\* the range up to end_o.
InOnRanges(dim, on) ==
    LET end_o == Ordinal(on + MAX_DUR)
        start_o == Ordinal(on - MAX_DUR)
    IN  IF start_o > end_o
        THEN dim >= start_o \/ dim <= end_o
        ELSE start_o <= dim /\ dim <= end_o

\* The selection of filter over the dimensions of the posts: the id from
\* `from` on, the creator, the approval flag, and the ordinal of the start of
\* the time range within MAX_DUR days around `on`.
FilterSelect(q) ==
    {id \in DOMAIN post :
        /\ q.from = NoneOpt \/ id >= q.from[1]
        /\ q.creator = NoneOpt \/ Creator(post[id]) = q.creator[1]
        /\ q.status = NoneOpt \/
              ApprovedDim(post[id]) = (IF q.status[1] = "Approved" THEN 1 ELSE 0)
        /\ q.on = NoneOpt \/ InOnRanges(Ordinal(post[id].time[1]), q.on[1])}

\* The body of the loop of filter: whether the selected post id is pushed.
\* A post of another account is shown to a holder of GetPubPost when it is
\* Approved and to a holder of ReviewPost when it is not.
FilterKeeps(caller, id, q) ==
    /\ ~(q.from # NoneOpt /\ id <= q.from[1])
    /\ ~(q.screen # NoneOpt /\ id % (q.screen[1] + 1) # 0)
    /\ ~(q.creator # NoneOpt /\ Creator(post[id]) # q.creator[1])
    /\ ~(q.status # NoneOpt /\ CurState(post[id]).status # q.status[1])
    /\ ~(q.on # NoneOpt /\ ~Contains(post[id].time, q.on[1]))
    /\ ~(/\ Creator(post[id]) # caller
         /\ ~(IF CurState(post[id]).status = "Approved"
              THEN ContainsPermission(account[caller], "GetPubPost")
              ELSE ContainsPermission(account[caller], "ReviewPost")))

\* filter: the posts of the selection, in the order it yields them, that the
\* loop pushes, up to `limit` of them (the loop ends when the length of the
\* list equals the limit, which a limit of 0 never does).
filter(order, caller, token, q) ==
    LET v == Va(caller, token, {})
        Keeps(id) == FilterKeeps(caller, id, q)
        kept == SelectSeq(order, Keeps)
    IN  IF v # "Ok" THEN [result |-> v, posts |-> <<>>]
        ELSE [result |-> "Ok",
              posts |-> IF q.limit = 0 \/ Len(kept) <= q.limit THEN kept
                        ELSE SubSeq(kept, 1, q.limit)]

\* The filter handler: it answers the list of filter and changes nothing.
Filter(caller, token, q) ==
    /\ \E order \in Orders(FilterSelect(q)) :
          Answer(filter(order, caller, token, q).result)
    /\ UNCHANGED <<account, unverified_account, post, resource, now, today, req, next_token, upload_state, sending, notification>>

\* get_info: the full post for its creator and for a holder of ReviewPost,
\* the simple one for a holder of GetPubPost when the post is Approved and
\* its time range contains today, and PostNotFound otherwise.
get_info(caller, token, id) ==
    LET v == Va(caller, token, {}) IN
    IF v # "Ok" THEN v
    ELSE IF id \notin DOMAIN post THEN "PostNotFound"
    ELSE IF Creator(post[id]) = caller \/ ContainsPermission(account[caller], "ReviewPost")
    THEN "Full"
    ELSE IF /\ ContainsPermission(account[caller], "GetPubPost")
            /\ CurState(post[id]).status = "Approved"
            /\ Contains(post[id].time, today)
    THEN "Simple"
    ELSE "PostNotFound"

\* The get_info handler: it answers the kind of Info and changes nothing.
GetInfo(caller, token, id) ==
    /\ Answer(get_info(caller, token, id))
    /\ UNCHANGED <<account, unverified_account, post, resource, now, today, req, next_token, upload_state, sending, notification>>

\* The queries: no criterion, one criterion each, and a limit of one post.
NoQuery ==
    [from |-> NoneOpt, limit |-> DEFAULT_LIMIT, creator |-> NoneOpt, status |-> NoneOpt,
     on |-> NoneOpt, screen |-> NoneOpt]
FilterQueries ==
    {NoQuery,
     [NoQuery EXCEPT !.from = Some(1)],
     [NoQuery EXCEPT !.limit = 1],
     [NoQuery EXCEPT !.creator = Some(Author)],
     [NoQuery EXCEPT !.status = Some("Approved")],
     [NoQuery EXCEPT !.status = Some("Pending")],
     [NoQuery EXCEPT !.on = Some(2)],
     [NoQuery EXCEPT !.on = Some(9)],
     [NoQuery EXCEPT !.screen = Some(1)]}

\* The author holds Post and ReviewPost, creates posts on its resources and
\* reviews them; the other account holds GetPubPost, ReviewPost, both or
\* none, and both accounts look at the posts.
ViewerPerms ==
    {NoneOpt, Some({"GetPubPost"}), Some({"ReviewPost"}), Some({"GetPubPost", "ReviewPost"})}

InitFilter == InitAccounts({Some({"Post", "ReviewPost"})}, ViewerPerms)

NextFilter ==
    \/ \E r \in {1, 3}, time \in {<<1, 8>>, <<3, 4>>} :
          NewPost(Author, 1, "t1", time, <<r>>, FALSE)
    \/ \E id \in PostIds, status \in {"Approved", "Rejected"} :
          /\ id \in DOMAIN post => Len(post[id].states) <= 2
          /\ Review(Author, 1, id, status)
    \/ \E auth \in RemoveAuths, q \in FilterQueries :
          Filter(auth[1], auth[2], q)
    \/ \E auth \in RemoveAuths, id \in PostIds :
          GetInfo(auth[1], auth[2], id)
    \/ TickDay

SpecFilter == InitFilter /\ [][NextFilter]_vars

\* The post meets the criteria of the query.
Matches(id, q) ==
    /\ q.from = NoneOpt \/ id > q.from[1]
    /\ q.screen = NoneOpt \/ id % (q.screen[1] + 1) = 0
    /\ q.creator = NoneOpt \/ Creator(post[id]) = q.creator[1]
    /\ q.status = NoneOpt \/ CurState(post[id]).status = q.status[1]
    /\ q.on = NoneOpt \/ Contains(post[id].time, q.on[1])

\* The rule of the claim: the creator, a holder of ReviewPost, or a holder of
\* GetPubPost for an Approved post whose time range contains the date of the
\* query (if it has one).
VisibleTo(caller, id, q) ==
    \/ Creator(post[id]) = caller
    \/ ContainsPermission(account[caller], "ReviewPost")
    \/ /\ ContainsPermission(account[caller], "GetPubPost")
       /\ CurState(post[id]).status = "Approved"
       /\ q.on = NoneOpt \/ Contains(post[id].time, q.on[1])

\* C20: a filter with a limit that is not reached returns a post that meets
\* the query exactly when the caller created it, or holds ReviewPost
\* (whatever the status of the post), or holds GetPubPost while the post is
\* Approved and its time range contains the date of the query.
C20_FilterVisibility ==
    [][\A auth \in RemoveAuths, q \in FilterQueries :
        (/\ Authorized(auth[1], auth[2], {})
         /\ q.limit = DEFAULT_LIMIT
         /\ Filter(auth[1], auth[2], q)) =>
            /\ reply' = "Ok"
            /\ \A order \in Orders(FilterSelect(q)), id \in DOMAIN post :
                  Matches(id, q) =>
                     (id \in SeqElems(filter(order, auth[1], auth[2], q).posts)
                        <=> VisibleTo(auth[1], id, q))]_vars


----------------------------------------------------------------------------
(* The window of ordinals of filter.                                        *)

\* Posts that start in the last days of a year or the first days of the next
\* one, after a year of YearLen days and after a leap year, and queries for
\* dates around both turns of the year.
WrapStarts == {359, 363, 365, 366, 367, 725, 730, 731, 732, 733}
WrapTimes == {<<s, s + n>> : s \in WrapStarts, n \in {0, 2, MAX_DUR}}
WrapDays == {363, 365, 366, 367, 372, 373, 374, 729, 731, 732, 738, 739}
WrapQueries == {[NoQuery EXCEPT !.on = Some(d)] : d \in WrapDays}

NextWrap ==
    \/ \E time \in WrapTimes, r \in {1, 3} :
          NewPost(Author, 1, "t1", time, <<r>>, FALSE)
    \/ \E q \in WrapQueries :
          Filter(Author, 1, q)
    \/ \E id \in PostIds :
          Remove(Author, 1, id)

SpecWrap == InitPost /\ [][NextWrap]_vars

\* The greatest ordinal of a year, and the ordinals of the first and the last
\* days of a year.
MaxOrdinal == LeapYearLen
WrapOrdinals == (1 .. 16) \cup (350 .. MaxOrdinal)

\* C21: for a date d the selection keeps the start ordinals from
\* ordinal(d - 7) to ordinal(d + 7) when the first is not greater than the
\* second, and otherwise those from ordinal(d - 7) to the greatest ordinal
\* and from 1 to ordinal(d + 7); every post whose time range contains d has
\* its start ordinal among them, also across the turn of a year, and the
\* filter for d returns it to its creator.
C21_Window ==
    /\ \A d \in WrapDays, o \in WrapOrdinals :
          InOnRanges(o, d) <=>
             IF Ordinal(d - 7) <= Ordinal(d + 7)
             THEN o \in Ordinal(d - 7) .. Ordinal(d + 7)
             ELSE o \in (Ordinal(d - 7) .. MaxOrdinal) \cup (1 .. Ordinal(d + 7))
    /\ \A q \in WrapQueries, id \in DOMAIN post :
          Contains(post[id].time, q.on[1]) =>
             /\ InOnRanges(Ordinal(post[id].time[1]), q.on[1])
             /\ \A order \in Orders(FilterSelect(q)) :
                   id \in SeqElems(filter(order, Creator(post[id]), 1, q).posts)

\* A post that starts on the last day of a year (ordinal 365) and one that
\* starts on the second day of the next year (ordinal 2) both contain the
\* first day of that year, and a filter was answered.
C21_Witness ==
    /\ reply = "Ok"
    /\ \E i, j \in DOMAIN post :
          /\ Ordinal(post[i].time[1]) = 365 /\ post[i].time[1] = 365
          /\ Contains(post[i].time, 367)
          /\ Ordinal(post[j].time[1]) = 2
          /\ Contains(post[j].time, 367)
          /\ Ordinal(367 - MAX_DUR) > Ordinal(367 + MAX_DUR)


----------------------------------------------------------------------------
(* The resources of live posts.                                             *)

\* C22: in every reachable state, also after a modify or a removal that
\* failed midway, every resource id that a live post lists refers to an
\* existing resource record whose used flag is set.
C22_ListedExist ==
    \A id \in DOMAIN post : \A r \in post[id].resources :
        r \in DOMAIN resource /\ resource[r].used


\* Posts are created on one resource each and their resources are replaced,
\* once per post, by a resource of the author.
BlockPatches ==
    {<<NoneOpt, NoneOpt, NoneOpt, Some({1})>>,
     <<NoneOpt, NoneOpt, NoneOpt, Some({3})>>}

NextBlock ==
    \/ \E auth \in GoodAuths, r \in {1, 2, 3} :
          NewPost(auth[1], auth[2], "t1", <<1, 8>>, <<r>>, FALSE)
    \/ \E auth \in GoodAuths, id \in PostIds, patch \in BlockPatches :
          /\ id \in DOMAIN post => Len(post[id].states) <= 1
          /\ Modify(auth[1], auth[2], id, patch[1], patch[2], patch[3], patch[4])

SpecBlock == InitPost /\ [][NextBlock]_vars

\* C23: block on a resource that is used fails and leaves it used, block on
\* a free one sets the flag; so a request that comes to claim a used resource
\* is answered ResourceUsed, be it the owner's (new_post lists its own used
\* resource) or another account's (modify takes a resource of another
\* account into its post), and no step resets the flag of a resource.
C23_BlockUsed ==
    /\ [](\A r \in DOMAIN resource :
            Block(resource[r]) =
               IF resource[r].used
               THEN [ok |-> FALSE, res |-> resource[r]]
               ELSE [ok |-> TRUE, res |-> [owner |-> resource[r].owner, used |-> TRUE]])
    /\ [][/\ (/\ 1 \in DOMAIN resource
              /\ resource[1].used
              /\ NewPost(Author, 1, "t1", <<1, 8>>, <<1>>, FALSE)) =>
                 reply' = "ResourceUsed" /\ post' = post /\ resource' = resource
          /\ \A auth \in GoodAuths, id \in DOMAIN post, patch \in BlockPatches :
                (/\ patch[4] # NoneOpt
                 /\ Creator(post[id]) = auth[1]
                 /\ Modify(auth[1], auth[2], id, patch[1], patch[2], patch[3], patch[4])) =>
                    LET entering == (patch[4][1] \ post[id].resources) \cap DOMAIN resource
                    IN  IF \E r \in entering : resource[r].used
                        THEN /\ reply' = "ResourceUsed"
                             /\ \A r \in entering :
                                   resource[r].used =>
                                      r \in DOMAIN resource' /\ resource'[r] = resource[r]
                        ELSE /\ reply' = "Ok"
                             /\ \A r \in entering : resource'[r].used
          /\ \A r \in DOMAIN resource \cap DOMAIN resource' :
                resource[r].used => resource'[r].used]_vars

\* The reviewer asked to take resource 3, which the author owns and whose
\* post uses it, into its own post and was answered ResourceUsed.
C23_Witness ==
    /\ reply = "ResourceUsed"
    /\ \E i, j \in DOMAIN post :
          /\ Creator(post[i]) = Author /\ post[i].resources = {3}
          /\ Creator(post[j]) = Reviewer /\ post[j].resources = {2}
    /\ 3 \in DOMAIN resource /\ resource[3].used /\ resource[3].owner = Author


----------------------------------------------------------------------------
(* Uploads: two accounts that may upload, each with the session id that its
   new_session requests hash to, bodies at the cap and one byte over it, final
   ids that are taken and free, and a clock that reaches the age of 15 and of
   16 seconds. *)

UploaderPerms == {Some({"UploadResource"})}
InitUpload == InitAccounts(UploaderPerms, UploaderPerms)
UploadAuths == {<<Author, 1>>, <<Reviewer, 2>>, <<Reviewer, 0>>}
SessionIds == {1, 2}
SessionIdOf(a) == IF a = Author THEN 1 ELSE 2
BodyLens == {MAX_PAYLOAD_LEN, MAX_PAYLOAD_LEN + 1}
FinalIds == {1, NumRes + 1}
InstantSteps == {15, 16}

NextUpload ==
    \/ \E a \in UploadAuths : NewSession(a[1], a[2], SessionIdOf(a[1]))
    \/ \E a \in UploadAuths, id \in SessionIds : UploadOpen(a[1], a[2], id)
    \/ \E u \in uploads, len \in BodyLens, new_id \in FinalIds : UploadBody(u, len, new_id)
    \/ \E d \in InstantSteps : TickInstant(d)

SpecUpload == InitUpload /\ [][NextUpload]_vars

\* The session of this id was created more than 15 seconds ago.
Stale(id) == instant - resource_sessions[id].instant > 15

\* The permanent files, those of the resources.
PermanentFiles(fs) == [n \in {m \in DOMAIN fs : m[1] = FILE_PREFIX} |-> fs[n]]

\* C24: accept on a session id that is unknown or whose session is older than
\* 15 seconds fails with ResourceUploadSessionNotFound, and the upload that
\* calls it yields no resource record and no permanent file; the tables that
\* accept and insert leave hold no session older than 15 seconds besides the
\* one that insert adds.
C24_Expiry ==
    /\ [](\A id \in SessionIds, user \in PostUsers, new_id \in FinalIds :
            LET a == accept(resource_sessions, id, user, new_id)
                i == insert(resource_sessions, [id |-> id, owner |-> user, used |-> FALSE])
            IN  /\ (id \notin DOMAIN resource_sessions \/ Stale(id))
                      => ~a.ok /\ a.err = "ResourceUploadSessionNotFound"
                /\ \A k \in DOMAIN a.sessions :
                      instant - a.sessions[k].instant <= 15
                /\ \A k \in DOMAIN i : instant - i[k].instant <= 15
                /\ \A k \in DOMAIN resource_sessions \ {id} :
                      ~Stale(k) => k \in DOMAIN i /\ i[k] = resource_sessions[k])
    /\ [][\A u \in uploads, new_id \in FinalIds :
            /\ UploadBody(u, MAX_PAYLOAD_LEN, new_id)
            /\ (u.id \notin DOMAIN resource_sessions \/ Stale(u.id))
            => /\ reply' = "ResourceUploadSessionNotFound"
               /\ resource' = resource
               /\ PermanentFiles(files') = PermanentFiles(files)
               /\ \A k \in DOMAIN resource_sessions' : ~Stale(k)]_vars

\* An upload of a body at the cap was refused because its session had expired:
\* the buffer is still on disk, no session and no upload is left, and no
\* upload has replaced or added a permanent file.
C24_Witness ==
    /\ reply = "ResourceUploadSessionNotFound"
    /\ ResourceBufName(1) \in DOMAIN files
    /\ files[ResourceBufName(1)] = MAX_PAYLOAD_LEN
    /\ resource_sessions = EmptyWorld
    /\ uploads = {}
    /\ \A r \in ResIds : files[file_name(r)] = 0
    /\ DOMAIN resource = ResIds


\* The session of this upload is there, not older than 15 seconds and of the
\* uploader, and its buffer file is on disk.
Committable(u) ==
    /\ u.id \in DOMAIN resource_sessions
    /\ ~Stale(u.id)
    /\ resource_sessions[u.id].resource.owner = u.account
    /\ ResourceBufName(u.id) \in DOMAIN files

\* C25: an upload whose body is longer than 50 MiB is answered
\* PayloadTooLarge, inserts no resource record, leaves the permanent files as
\* they were and leaves no buffer file; a body of exactly 50 MiB is not
\* refused for its size, and is stored under a free final id when its session
\* can be committed.
C25_Cap ==
    [][\A u \in uploads, new_id \in FinalIds :
          /\ UploadBody(u, MAX_PAYLOAD_LEN + 1, new_id)
             => /\ reply' = "PayloadTooLarge"
                /\ resource' = resource
                /\ PermanentFiles(files') = PermanentFiles(files)
                /\ ResourceBufName(u.id) \notin DOMAIN files'
          /\ UploadBody(u, MAX_PAYLOAD_LEN, new_id)
             => /\ reply' # "PayloadTooLarge"
                /\ (Committable(u) /\ new_id \notin DOMAIN resource)
                   => /\ reply' = "Ok"
                      /\ new_id \in DOMAIN resource'
                      /\ files'[file_name(new_id)] = MAX_PAYLOAD_LEN]_vars

\* A body of 50 MiB was stored as a new resource, and then a body of one byte
\* more was refused: its session is still there and its buffer is gone.
C25_Witness ==
    /\ reply = "PayloadTooLarge"
    /\ 1 \in DOMAIN resource_sessions
    /\ ResourceBufName(1) \notin DOMAIN files
    /\ NumRes + 1 \in DOMAIN resource
    /\ files[file_name(NumRes + 1)] = MAX_PAYLOAD_LEN


\* C26: when the final id of a committed upload is the id of a resource that
\* exists, the upload fails, the resource records stay as they were and so do
\* the permanent files: the file of the existing resource is not replaced.
C26_NoOrphan ==
    [][\A u \in uploads, new_id \in FinalIds :
          /\ UploadBody(u, MAX_PAYLOAD_LEN, new_id)
          /\ Committable(u)
          /\ new_id \in DOMAIN resource
          => /\ reply' # "Ok"
             /\ resource' = resource
             /\ PermanentFiles(files') = PermanentFiles(files)]_vars


----------------------------------------------------------------------------
(* The sweep of the ended posts: accounts with and without RemovePost,
   Maintain and Post, posts that end on day 1 and on day 8. *)

SweepPerms == {Some({"Post", "Maintain"}), Some({"Post", "RemovePost", "Maintain"}),
               Some({"RemovePost", "Maintain"}), Some({"Post", "RemovePost"})}
InitSweep == InitAccounts(SweepPerms, SweepPerms)
SweepAuths == {<<Author, 1>>, <<Reviewer, 2>>, <<Reviewer, 0>>}
SweepTimes == {<<1, 1>>, <<1, 8>>}

NextSweep ==
    \/ \E t \in SweepTimes, r \in {1, 3} : NewPost(Author, 1, "t1", t, <<r>>, FALSE)
    \/ \E t \in SweepTimes : NewPost(Reviewer, 2, "t2", t, <<2>>, FALSE)
    \/ \E a \in SweepAuths : BulkRemoveUnused(a[1], a[2])
    \/ TickDay

SpecSweep == InitSweep /\ [][NextSweep]_vars

\* The posts whose time range ended before today.
Ended == {id \in DOMAIN post : post[id].time[2] < today}

\* C27: a bulk removal of the unused posts that destroys a post comes from a
\* caller that holds RemovePost and Maintain; it destroys the posts that ended
\* before today with the resources they list, and no other post.
C27_Sweep ==
    [][\A a \in SweepAuths :
          BulkRemoveUnused(a[1], a[2]) /\ reply' = "Ok" /\ post' # post
          => /\ Authorized(a[1], a[2], {"RemovePost", "Maintain"})
             /\ DOMAIN post' = DOMAIN post \ Ended
             /\ \A id \in Ended : \A r \in post[id].resources : r \notin DOMAIN resource']_vars


----------------------------------------------------------------------------
(* send_captcha request by request: the handler awaits the storage and the
   mail transport between its check of the accounts and its insert, and
   other requests run meanwhile. *)

\* send_captcha up to the check of the accounts: an email that has an account
\* is refused, any other request goes on to the pending records.
SendCaptchaCheck(email) ==
    /\ LET h == EmailHash(email) IN
       IF UnverifiedNew(email) # "Ok"
       THEN Answer(UnverifiedNew(email)) /\ UNCHANGED sending
       ELSE IF h \in DOMAIN account
       THEN Answer("PermissionDenied") /\ UNCHANGED sending
       ELSE sending' = sending \cup {email} /\ UNCHANGED reply
    /\ UNCHANGED <<account, unverified_account, post, resource, now, today, req, next_token,
                   upload_state, notification>>

\* send_captcha from the pending records on: an existing pending record gets
\* a new captcha in place; otherwise a new pending record is inserted once
\* its captcha was sent.
SendCaptchaSend(email, delivered) ==
    /\ email \in sending
    /\ sending' = sending \ {email}
    /\ LET h == EmailHash(email) IN
       \E captcha \in Captchas :
          IF h \in DOMAIN unverified_account /\ unverified_account[h].email = email
          THEN LET s == send_email(unverified_account[h].cx, captcha, delivered)
               IN  /\ Answer(s.result)
                   /\ unverified_account' = [unverified_account EXCEPT ![h].cx = s.cx]
          ELSE LET s == send_email(VerifyCxNew(captcha), captcha, delivered)
               IN  /\ Answer(s.result)
                   /\ IF s.result = "Ok"
                      THEN unverified_account' =
                              Insert(unverified_account, h, [email |-> email, cx |-> s.cx])
                      ELSE UNCHANGED unverified_account
    /\ UNCHANGED <<account, post, resource, now, today, req, next_token, upload_state, notification>>

NextEmail ==
    \/ \E email \in Emails : SendCaptchaCheck(email)
    \/ \E email \in sending, delivered \in BOOLEAN : SendCaptchaSend(email, delivered)
    \/ \E email \in Emails, captcha \in Captchas : Register(email, "pw1", captcha, NoneOpt)

SpecEmail == InitRegister /\ [][NextEmail]_vars

\* C28: no email has a pending record and an account at the same time, also
\* when send_captcha and register requests for it run concurrently. (The
\* pending records are kept by the hash of their email, one per email.)
C28_OneRecord ==
    \A email \in SchoolEmails :
        ~(EmailHash(email) \in DOMAIN unverified_account /\ EmailHash(email) \in DOMAIN account)


----------------------------------------------------------------------------
(* Registration with the tags of the request: a tag is a pair of its entry
   and its value. *)

\* The tags a registration may carry: permissions, departments and a house.
ReqTags == {<<"Permission", "SetPermissions">>, <<"Permission", "Post">>,
            <<"Department", "SubIT">>, <<"House", "5">>}

\* Tags::from_entry for the Permission entry: None without a permission tag.
PermissionEntry(tags) ==
    IF \E t \in tags : t[1] = "Permission"
    THEN Some({t[2] : t \in {s \in tags : s[1] = "Permission"}})
    ELSE NoneOpt

\* Tags::retain_user_definable on all tags: the tags of the entries that a
\* user may define, Department and House, are kept.
RetainUserDefinable(tags) == {t \in tags : t[1] \in {"Department", "House"}}

\* A verification that keeps every tag of the request.
VerifiedAsRequested(email, password, tags, dur) ==
    [email |-> email, password |-> password, tokens |-> {},
     perms |-> initialize_permissions(PermissionEntry(tags)),
     token_expire_time |-> dur, verifies |-> NoneOpt,
     tags |-> tags]

\* Unverified::verify with the tags of the request: the account of Verified,
\* with the tags that to_verified_ext retained besides its Permission entry.
VerifiedTagged(email, password, tags, dur) ==
    LET kept == RetainUserDefinable(tags)
    IN  [email |-> email, password |-> password, tokens |-> {},
         perms |-> initialize_permissions(PermissionEntry(kept)),
         token_expire_time |-> dur, verifies |-> NoneOpt,
         tags |-> kept]

\* register with the tags of the request.
RegisterTagged(email, password, captcha, tags) ==
    /\ LET h == EmailHash(email) IN
       IF UnverifiedNew(email) # "Ok"
       THEN Answer(UnverifiedNew(email)) /\ UNCHANGED <<account, unverified_account>>
       ELSE IF h \notin DOMAIN unverified_account
       THEN Answer("UnverifiedAccountNotFound") /\ UNCHANGED <<account, unverified_account>>
       ELSE LET removed == Destroy(unverified_account, {h})
                v == to_verified_ext(unverified_account[h].cx, captcha)
            IN  IF v = "Ok"
                THEN /\ unverified_account' = removed
                     /\ IF h \in DOMAIN account
                        THEN Answer("PermissionDenied") /\ UNCHANGED account
                        ELSE /\ \E dur \in Opt(Durations) :
                                   account' = Insert(account, h,
                                                VerifiedTagged(email, password, tags, dur))
                             /\ Answer("Ok")
                ELSE /\ unverified_account' = Insert(removed, h, unverified_account[h])
                     /\ Answer(v)
                     /\ UNCHANGED account
    /\ UNCHANGED <<post, resource, now, today, req, next_token, upload_state, sending, notification>>

NextTags ==
    \/ \E email \in Emails : SendCaptcha(email, TRUE)
    \/ \E email \in Emails, captcha \in Captchas, tags \in SUBSET ReqTags :
          RegisterTagged(email, "pw1", captcha, tags)

SpecTags == InitRegister /\ [][NextTags]_vars

\* C29: a registration that succeeds creates the account with a Permission
\* entry equal to the default permissions, whatever tags the request carried,
\* and with the Department and House tags of the request, and no other tag.
C29_DefaultPermissions ==
    [][\A email \in SchoolEmails, captcha \in Captchas, tags \in SUBSET ReqTags :
          RegisterTagged(email, "pw1", captcha, tags) /\ reply' = "Ok"
          => LET acc == account'[EmailHash(email)]
             IN  /\ acc.perms = Some({"GetPubPost", "Post", "UploadResource",
                                      "ViewSimpleAccount", "GetPubNotifications"})
                 /\ \A t \in tags : t[1] \in {"Department", "House"} => t \in acc.tags
                 /\ \A t \in acc.tags : t \in tags /\ t[1] # "Permission"]_vars

\* Both school emails are registered: one account kept a department and a
\* house, the other kept nothing of a request that asked for permissions only.
C29_Witness ==
    /\ DOMAIN account = {Author, Reviewer}
    /\ reply = "Ok"
    /\ account[Author].tags = {<<"Department", "SubIT">>, <<"House", "5">>}
    /\ account[Reviewer].tags = {}


----------------------------------------------------------------------------
(* Password reset: logins that issue tokens, captchas for the reset and
   reset requests with either captcha. *)

NextReset ==
    \/ \E email \in SchoolEmails, password \in Passwords : Login(email, password)
    \/ \E email \in SchoolEmails, delivered \in BOOLEAN :
          SendResetPasswordCaptcha(email, delivered)
    \/ \E email \in SchoolEmails, captcha \in Captchas :
          ResetPassword(email, captcha, "pw2")
    \/ Tick(LEAST_DURATION)

SpecReset == InitLogin /\ [][NextReset]_vars

\* C30: a reset_password whose captcha is not the one that the reset context
\* of the account holds (or that finds no reset context) fails and leaves the
\* password and the tokens of the account as they were; with the captcha of
\* the reset context it sets the new password, and no token issued so far is
\* valid for the account afterwards.
C30_Reset ==
    [][\A email \in SchoolEmails, captcha \in Captchas :
          ResetPassword(email, captcha, "pw2")
          => LET h == EmailHash(email)
                 acc == account[h]
             IN  IF acc.verifies # NoneOpt /\ acc.verifies[1].captcha = captcha
                 THEN /\ reply' = "Ok"
                      /\ account'[h].password = "pw2"
                      /\ \A t \in 0 .. next_token : ~IsTokenValid(account'[h], t)
                 ELSE /\ reply' \in {"CaptchaIncorrect", "VerifySessionNotFound"}
                      /\ account'[h].password = acc.password
                      /\ account'[h].tokens = acc.tokens]_vars

\* The reviewer logged in and then reset its password: it has the new
\* password and no token, while the author is as at the start.
C30_Witness ==
    /\ reply = "Ok"
    /\ account[Reviewer].password = "pw2"
    /\ account[Reviewer].tokens = {}
    /\ account[Author].tokens = {[token |-> 1, exp |-> NoneOpt]}
    /\ account[Author].verifies = NoneOpt
    /\ next_token > 3


----------------------------------------------------------------------------
(* The claims about failures, histories and status codes. *)

\* C31: a send_captcha whose captcha is issued (no account of the email, no
\* pending record or one whose cooldown is over) and whose delivery fails
\* answers with the transport error and leaves a pending record of the email
\* that holds a captcha and whose cooldown started now, for a first captcha
\* as for a pending record that was there.
C31_NoRollback ==
    [][\A email \in SchoolEmails :
          LET h == EmailHash(email) IN
          (/\ h \notin DOMAIN account
           /\ h \in DOMAIN unverified_account
                 => now - unverified_account[h].cx.last_req >= LEAST_DURATION
           /\ SendCaptcha(email, FALSE))
          => /\ reply' = "Smtp"
             /\ h \in DOMAIN unverified_account'
             /\ unverified_account'[h].cx.last_req = now
             /\ unverified_account'[h].cx.captcha \in Captchas]_vars


\* Posts through their whole life: created by either account, reviewed by
\* anyone, retitled by anyone and removed.
NextHistory ==
    \/ \E auth \in GoodAuths, r \in {1, 2} :
          NewPost(auth[1], auth[2], "t1", <<1, 8>>, <<r>>, FALSE)
    \/ \E auth \in Auths, id \in PostIds, status \in Statuses :
          Review(auth[1], auth[2], id, status)
    \/ \E auth \in GoodAuths, id \in PostIds :
          Modify(auth[1], auth[2], id, Some("t2"), NoneOpt, NoneOpt, NoneOpt)
    \/ \E auth \in GoodAuths, id \in PostIds : Remove(auth[1], auth[2], id)

SpecHistory == InitPost /\ [][NextHistory]_vars

\* C32: the state history of every post is never empty and starts with a
\* Pending state; the creator is the operator of that state and the current
\* state is the last one; a step leaves the history of a post as it is or
\* appends one state to it, so that no earlier state and no creator changes.
C32_History ==
    /\ [](\A id \in DOMAIN post :
            LET s == post[id].states
            IN  /\ Len(s) >= 1
                /\ s[1].status = "Pending"
                /\ Creator(post[id]) = s[1].operator
                /\ CurState(post[id]) = s[Len(s)])
    /\ [][\A id \in DOMAIN post \cap DOMAIN post' :
            LET s == post[id].states
                t == post'[id].states
            IN  \/ t = s
                \/ /\ Len(t) = Len(s) + 1
                   /\ SubSeq(t, 1, Len(s)) = s]_vars

\* A post of the author was approved by the reviewer and then modified by
\* the author: three states, the first and the last Pending.
C32_Witness ==
    \E id \in DOMAIN post :
        post[id].states = <<State("Pending", Author), State("Approved", Reviewer),
                            State("Pending", Author)>>


\* The errors that say that something was not found.
NotFoundErrors ==
    {"AccountNotFound", "TargetAccountNotFound", "UnverifiedAccountNotFound",
     "PostNotFound", "ResourceNotFound", "NotificationNotFound",
     "ResourceUploadSessionNotFound", "VerifySessionNotFound"}

\* C33: the status code of the answer follows the taxonomy: 404 for every
\* error that says that something was not found, 409 for ResourceUsed, 429
\* for ReqTooFrequent, 401 for NotLoggedIn, and 500 for the failures of the
\* storage, of the mail transport and of the saving of a file.
C33_Taxonomy ==
    /\ reply \in NotFoundErrors => StatusCode(reply) = 404
    /\ reply = "ResourceUsed" => StatusCode(reply) = 409
    /\ reply = "ReqTooFrequent" => StatusCode(reply) = 429
    /\ reply = "NotLoggedIn" => StatusCode(reply) = 401
    /\ reply \in {"Database", "Lettre", "Smtp", "ResourceSaveFailed"} => StatusCode(reply) = 500


----------------------------------------------------------------------------
(* Notifications.  The time of a notification is the midnight that starts
   its day, and the time of a request lies within the day `today`: a
   notification is later than now when its day is later than today. *)

\* Date::year, for the days of Ordinal.
Year(d) ==
    LET c == (d - 1) \div (YearLen + LeapYearLen)
        r == (d - 1) % (YearLen + LeapYearLen)
    IN  2 * c + (IF r < YearLen THEN 0 ELSE 1)

\* Notification::new
NotificationNew(time, sender) == [time |-> time, sender |-> sender]

\* notify: a holder of ManageNotifications inserts a notification, under the
\* id that is hashed from its body, its time and the system time.
NotificationIds == {1, 2}
Notify(caller, token, id, time) ==
    /\ id \notin DOMAIN notification
    /\ LET v == Va(caller, token, {"ManageNotifications"}) IN
       IF v # "Ok" THEN Answer(v) /\ UNCHANGED notification
       ELSE /\ notification' = Insert(notification, id, NotificationNew(time, caller))
            /\ Answer("Ok")
    /\ UNCHANGED <<account, unverified_account, post, resource, now, today, req, next_token,
                   upload_state, sending>>

\* remove (of a notification).
NotificationRemove(caller, token, id) ==
    /\ LET v == Va(caller, token, {"ManageNotifications"}) IN
       IF v # "Ok" THEN Answer(v) /\ UNCHANGED notification
       ELSE IF id \notin DOMAIN notification
       THEN Answer("NotificationNotFound") /\ UNCHANGED notification
       ELSE notification' = Destroy(notification, {id}) /\ Answer("Ok")
    /\ UNCHANGED <<account, unverified_account, post, resource, now, today, req, next_token,
                   upload_state, sending>>

\* The selection of filter over the dimensions of the notifications: the id
\* from `from` on and, with both dates given less than 365 days apart, the
\* ordinal of the day between those of the dates when they are of one year,
\* and up to that of `before` or from that of `after` on when they are not.
NotificationSelect(q) ==
    {id \in DOMAIN notification :
        /\ q.from = NoneOpt \/ id >= q.from[1]
        /\ (q.before # NoneOpt /\ q.after # NoneOpt /\ q.after[1] + 365 > q.before[1])
           => LET o == Ordinal(notification[id].time)
              IN  IF Year(q.after[1]) = Year(q.before[1])
                  THEN Ordinal(q.after[1]) <= o /\ o <= Ordinal(q.before[1])
                  ELSE o <= Ordinal(q.before[1]) \/ o >= Ordinal(q.after[1])}

\* The body of the loop of filter: whether the selected notification is
\* pushed.
NotificationKeeps(caller, id, q) ==
    LET val == notification[id]
        permitted_manage == ContainsPermission(account[caller], "ManageNotifications")
    IN  /\ ~(q.from # NoneOpt /\ id <= q.from[1])
        /\ ~(q.sender # NoneOpt /\ val.sender # q.sender[1] /\ permitted_manage)
        /\ ~(q.after # NoneOpt /\ val.time >= q.after[1])
        /\ ~(q.before # NoneOpt /\ val.time <= q.before[1])
        /\ ~(~permitted_manage /\ val.time > today)

\* filter (of notifications): the notifications of the selection, in the
\* order it yields them, that the loop pushes, up to `limit` of them.
NOTIFICATION_DEFAULT_LIMIT == 16
notification_filter(order, caller, token, q) ==
    LET v == Va(caller, token, {"GetPubNotifications"})
        Keeps(id) == NotificationKeeps(caller, id, q)
        kept == SelectSeq(order, Keeps)
    IN  IF v # "Ok" THEN [result |-> v, notifications |-> <<>>]
        ELSE [result |-> "Ok",
              notifications |-> IF q.limit = 0 \/ Len(kept) <= q.limit THEN kept
                                ELSE SubSeq(kept, 1, q.limit)]

NotificationFilter(caller, token, q) ==
    /\ \E order \in Orders(NotificationSelect(q)) :
          Answer(notification_filter(order, caller, token, q).result)
    /\ UNCHANGED <<account, unverified_account, post, resource, now, today, req, next_token,
                   upload_state, sending, notification>>

\* get_info (of a notification): the full notification for a holder of
\* ManageNotifications, the simple one for another caller unless its time is
\* later than now.
notification_get_info(caller, token, id) ==
    LET v == Va(caller, token, {"GetPubNotifications"}) IN
    IF v # "Ok" THEN v
    ELSE IF id \notin DOMAIN notification THEN "NotificationNotFound"
    ELSE IF notification[id].time > today
            /\ ~ContainsPermission(account[caller], "ManageNotifications")
    THEN "NotificationNotFound"
    ELSE IF ContainsPermission(account[caller], "ManageNotifications") THEN "Full"
    ELSE "Simple"

NotificationGetInfo(caller, token, id) ==
    /\ Answer(notification_get_info(caller, token, id))
    /\ UNCHANGED <<account, unverified_account, post, resource, now, today, req, next_token,
                   upload_state, sending, notification>>

\* bulk_get_info (of notifications): the map from the requested ids that
\* exist to their Info; for a caller without ManageNotifications the loop
\* passes over the notifications whose time is now or earlier.
notification_bulk_get_info(caller, token, ids) ==
    LET v == Va(caller, token, {"GetPubPost"})
        permitted_manage == ContainsPermission(account[caller], "ManageNotifications")
        got == {id \in ids \cap DOMAIN notification :
                   ~(notification[id].time <= today /\ ~permitted_manage)}
    IN  IF v # "Ok" THEN [result |-> v, infos |-> EmptyWorld]
        ELSE [result |-> "Ok",
              infos |-> [id \in got |-> IF permitted_manage THEN "Full" ELSE "Simple"]]

NotificationBulkGetInfo(caller, token, ids) ==
    /\ Answer(notification_bulk_get_info(caller, token, ids).result)
    /\ UNCHANGED <<account, unverified_account, post, resource, now, today, req, next_token,
                   upload_state, sending, notification>>


\* A manager of the notifications and a viewer with or without GetPubPost;
\* notifications on the first days, which the calendar reaches, and on the
\* last day of one year and the first day of the next.
ManagerPerms == {Some({"ManageNotifications", "GetPubNotifications", "GetPubPost"})}
NotifyViewerPerms == {Some({"GetPubNotifications", "GetPubPost"}), Some({"GetPubNotifications"})}
InitNotify == InitAccounts(ManagerPerms, NotifyViewerPerms)
NotifyAuths == {<<Author, 1>>, <<Reviewer, 2>>}
NotifyDays == {1, 2, 3, 365, 366}
DateRanges == {<<1, 3>>, <<2, 2>>, <<3, 365>>, <<365, 366>>}
NotifyQueries ==
    {[after |-> Some(r[1]), before |-> Some(r[2]), from |-> NoneOpt,
      limit |-> NOTIFICATION_DEFAULT_LIMIT, sender |-> NoneOpt] : r \in DateRanges}

NextNotify ==
    \/ \E auth \in NotifyAuths, id \in NotificationIds, time \in NotifyDays :
          Notify(auth[1], auth[2], id, time)
    \/ \E auth \in NotifyAuths, id \in NotificationIds :
          NotificationRemove(auth[1], auth[2], id)
    \/ \E auth \in NotifyAuths, q \in NotifyQueries :
          NotificationFilter(auth[1], auth[2], q)
    \/ \E auth \in NotifyAuths, id \in NotificationIds :
          NotificationGetInfo(auth[1], auth[2], id)
    \/ \E auth \in NotifyAuths, ids \in SUBSET NotificationIds :
          NotificationBulkGetInfo(auth[1], auth[2], ids)
    \/ TickDay

SpecNotify == InitNotify /\ [][NextNotify]_vars

\* The notification is visible to the caller: to a holder of
\* ManageNotifications always, to another caller from its time on.
NotificationVisible(caller, id) ==
    \/ ContainsPermission(account[caller], "ManageNotifications")
    \/ notification[id].time <= today

SeqRange(s) == {s[i] : i \in DOMAIN s}

\* C34: a filter with the dates after = a and before = b, a <= b less than
\* 365 days apart, answers the notifications visible to the caller whose day
\* lies between a and b, and no other.
C34_TwoSided ==
    \A auth \in NotifyAuths, q \in NotifyQueries :
        \A order \in Orders(NotificationSelect(q)) :
            LET f == notification_filter(order, auth[1], auth[2], q)
            IN  f.result = "Ok"
                => SeqRange(f.notifications) =
                      {id \in DOMAIN notification :
                          /\ NotificationVisible(auth[1], id)
                          /\ q.after[1] <= notification[id].time
                          /\ notification[id].time <= q.before[1]}

\* C40: a caller without ManageNotifications obtains no notification whose
\* time is later than now, from get_info, bulk_get_info or filter, and
\* bulk_get_info answers exactly the requested notifications that get_info
\* answers to the same caller.
C40_NoFuture ==
    \A auth \in NotifyAuths :
        ~ContainsPermission(account[auth[1]], "ManageNotifications")
        => /\ \A id \in NotificationIds :
                 notification_get_info(auth[1], auth[2], id) \in {"Simple", "Full"}
                 => notification[id].time <= today
           /\ \A q \in NotifyQueries : \A order \in Orders(NotificationSelect(q)) :
                 \A id \in SeqRange(notification_filter(order, auth[1], auth[2], q).notifications) :
                    notification[id].time <= today
           /\ \A ids \in SUBSET NotificationIds :
                 LET b == notification_bulk_get_info(auth[1], auth[2], ids)
                 IN  /\ \A id \in DOMAIN b.infos : notification[id].time <= today
                     /\ DOMAIN b.infos =
                           {id \in ids : notification_get_info(auth[1], auth[2], id)
                                            \in {"Simple", "Full"}}


\* C35: an account modify with token_expire_duration = 0 leaves the account
\* so that the token of a later login never expires, and with a duration
\* d > 0 so that it expires d after its issue.
C35_ExpireDuration ==
    [][\A auth \in LoginAuths, dur \in {0} \cup Durations,
          password \in Opt({[old |-> "pw1", new |-> "pw2"]}) :
          ModifyAccount(auth[1], auth[2], Some(dur), password) /\ reply' = "Ok"
          => LET acc == account'[auth[1]]
                 issued == login(acc, acc.password).account.tokens \ acc.tokens
             IN  /\ issued # {}
                 /\ \A t \in issued :
                        t.exp = IF dur = 0 THEN NoneOpt ELSE Some(now + dur)]_vars


\* C37: set_permissions answers every request, the one whose target is the
\* caller's own account too: the handler never waits forever for a mutable
\* handle on a record it holds a read handle on.
C37_Responds ==
    [][\A auth \in SessionAuths, target \in AccountIds, permissions \in SUBSET PermUniverse :
          SetPermissions(auth[1], auth[2], target, permissions)
          => reply' # "NoResponse"]_vars


\* Posts are created on one resource each and modified by their creators,
\* with a title and an invalid time range, with a valid time range and a
\* replacement of the resources by resource 3, and with a title alone.
FailingPatches ==
    {<<Some("t2"), Some(TRUE), Some(<<1, 9>>), NoneOpt>>,
     <<Some("t2"), NoneOpt, Some(<<2, 8>>), Some({3})>>,
     <<Some("t3"), NoneOpt, NoneOpt, NoneOpt>>}

NextPatch ==
    \/ \E auth \in GoodAuths, r \in {1, 2, 3} :
          NewPost(auth[1], auth[2], "t1", <<1, 8>>, <<r>>, FALSE)
    \/ \E auth \in GoodAuths, id \in PostIds, patch \in FailingPatches :
          /\ id \in DOMAIN post => Len(post[id].states) <= 2
          /\ Modify(auth[1], auth[2], id, patch[1], patch[2], patch[3], patch[4])

SpecPatch == InitPost /\ [][NextPatch]_vars

\* C38: a modify of a post by its creator that fails, on the validation of
\* the time range or on an entering resource that cannot be claimed, leaves
\* the post as it was (title, grouped flag, time range, resources and state
\* history) and destroys no resource.
C38_FailedModify ==
    [][\A auth \in GoodAuths, id \in PostIds, patch \in FailingPatches :
          /\ Modify(auth[1], auth[2], id, patch[1], patch[2], patch[3], patch[4])
          /\ id \in DOMAIN post
          /\ Creator(post[id]) = auth[1]
          /\ reply' # "Ok"
          => /\ post' = post
             /\ DOMAIN resource' = DOMAIN resource]_vars


\* C39: in every reachable state every resource that a live post lists is
\* owned by the creator of the post: new_post and modify bind or claim no
\* resource of another account.
C39_OwnResources ==
    \A id \in DOMAIN post : \A r \in post[id].resources :
        r \in DOMAIN resource => resource[r].owner = Creator(post[id])


----------------------------------------------------------------------------
(* Concurrent uploads to one session: the author creates the session of id
   1, the author and the reviewer send uploads to it on two connections, and
   the final ids are free. *)

UploadConns == {1, 2}
CommitSession == SessionIdOf(Author)
CommitIds == {NumRes + 1, NumRes + 2}

NextCommit ==
    \/ NewSession(Author, 1, CommitSession)
    \/ \E conn \in UploadConns, a \in {<<Author, 1>>, <<Reviewer, 2>>} :
          UploadOpenOn(conn, a[1], a[2], CommitSession)
    \/ \E u \in uploads, len \in BodyLens, new_id \in CommitIds : UploadBody(u, len, new_id)
    \/ \E d \in InstantSteps : TickInstant(d)

SpecCommit == InitUpload /\ [][NextCommit]_vars

\* The session of this id is in the table and not older than 15 seconds.
LiveSession(id) == id \in DOMAIN resource_sessions /\ ~Stale(id)

\* C36: of the uploads sent to one session, an accept succeeds only for the
\* owner while the session is there and takes the session out of the table,
\* so that every later commit of that id fails with
\* ResourceUploadSessionNotFound; a successful upload adds one resource
\* record and a failed one none; the accept for another account fails with
\* PermissionDenied and leaves the session.
C36_ConsumedOnce ==
    /\ [](\A user1, user2 \in PostUsers, n1, n2 \in CommitIds :
            LET a1 == accept(resource_sessions, CommitSession, user1, n1)
                a2 == accept(a1.sessions, CommitSession, user2, n2)
            IN  a1.ok => ~a2.ok /\ a2.err = "ResourceUploadSessionNotFound")
    /\ [][\A u \in uploads, new_id \in CommitIds :
             UploadBody(u, MAX_PAYLOAD_LEN, new_id)
             => /\ ~LiveSession(u.id)
                   => /\ reply' = "ResourceUploadSessionNotFound"
                      /\ resource' = resource
                /\ (LiveSession(u.id) /\ resource_sessions[u.id].resource.owner # u.account)
                   => /\ reply' = "PermissionDenied"
                      /\ u.id \in DOMAIN resource_sessions'
                      /\ resource_sessions'[u.id] = resource_sessions[u.id]
                      /\ resource' = resource
                /\ (LiveSession(u.id) /\ resource_sessions[u.id].resource.owner = u.account)
                   => /\ u.id \notin DOMAIN resource_sessions'
                      /\ DOMAIN resource' \subseteq DOMAIN resource \cup {new_id}
                /\ reply' = "Ok"
                   => /\ LiveSession(u.id)
                      /\ resource_sessions[u.id].resource.owner = u.account
                      /\ new_id \notin DOMAIN resource
                      /\ DOMAIN resource' = DOMAIN resource \cup {new_id}]_vars

\* Two uploads of the author to its session were in flight: the commit of
\* one was answered Ok and made the one resource record, the session is gone
\* within its lifetime, and the other upload is still to be committed.
C36_Witness ==
    /\ reply = "Ok"
    /\ instant = 0
    /\ CommitSession \notin DOMAIN resource_sessions
    /\ Cardinality(DOMAIN resource \cap CommitIds) = 1
    /\ \E r \in DOMAIN resource \cap CommitIds : resource[r].owner = Author
    /\ \E u \in uploads : u.id = CommitSession /\ u.account = Author


====
